---- MODULE Spec2Model ----
(***************************************************************************)
(* Bridge runtime module (module-bridge/src/lib.rs, types.rs): the         *)
(* outgoing Lock/Witness and the incoming Release threshold-attestation    *)
(* state machine over the accounts ledger.                                  *)
(***************************************************************************)
EXTENDS Integers, Sequences, FiniteSets, TLC

(* ------------------------------------------------------------------ *)
(* Bounds of the model                                                  *)
(* ------------------------------------------------------------------ *)
\* The composed module (Spec): Lock is explored while NEXT_OUT_SEQUENCE < MaxOut and
\* Release while NEXT_IN_SEQUENCE < MaxIn.
MaxOut == 1
MaxIn == 1
\* The incoming state machine (SpecIncoming): Release is explored while
\* NEXT_IN_SEQUENCE < MaxInIncoming, Lock while NEXT_OUT_SEQUENCE < MaxOutIncoming.
MaxInIncoming == 2
MaxOutIncoming == 1
\* The outgoing state machine (SpecOutgoing): Lock is explored while
\* NEXT_OUT_SEQUENCE < MaxOutOutgoing, from a genesis that funds alice with
\* InitBalanceOutgoing of the native denomination.
MaxOutOutgoing == 2
InitBalanceOutgoing == 2
\* Sequence numbers named by Witness and Release bodies range over 0..MaxId.
MaxId == 2
\* Quantities of a call's amount range over 1..MaxAmount.
MaxAmount == 1
\* Genesis balance of the funded user, in the native denomination.
InitBalance == 1

(* ------------------------------------------------------------------ *)
(* Addresses, denominations, call bodies                                *)
(* ------------------------------------------------------------------ *)
\* Transaction signers (test.rs keys::alice, bob, charlie).
Users == {"alice", "bob", "charlie"}

\* lib.rs: Address::from_module(MODULE_NAME, "locked-funds").
ADDRESS_LOCKED_FUNDS == "locked-funds"

Addresses == Users \cup {ADDRESS_LOCKED_FUNDS}

\* NATIVE is local, oETH is remote (test.rs init_bridge_ex); BAD is in neither set.
Denominations == {"NATIVE", "oETH", "BAD"}

RemoteAddresses == {"r0"}

Signatures == {"sigA", "sigB"}

Quantities == 1..MaxAmount

\* token::BaseUnits(quantity, denomination)
BaseUnits == [quantity : Quantities, denomination : Denominations]

\* Users that submit Lock calls.
LockCallers == {"alice", "bob"}

\* Targets named by Release calls: a user, and the module's own custody address.
ReleaseTargets == {"alice", ADDRESS_LOCKED_FUNDS}

\* types::Lock
LockBodies == [target : RemoteAddresses, amount : BaseUnits]

\* types::Witness
WitnessBodies == [id : 0..MaxId, signature : Signatures]

\* types::Release
ReleaseBodies == [id : 0..MaxId, target : ReleaseTargets, amount : BaseUnits]

(* ------------------------------------------------------------------ *)
(* Parameters                                                           *)
(* ------------------------------------------------------------------ *)
\* Genesis parameters: the witness lists of test.rs, init_bridge (alice is then no
\* witness) and init_bridge_ex of test_incoming_fail_divergence, with the tests'
\* threshold 2 and, for the shorter list, threshold 1.
Parameters(w, t) ==
    [witnesses |-> w, threshold |-> t,
     local_denominations |-> {"NATIVE"},
     remote_denominations |-> [d \in {"oETH"} |-> "00"]]

GenesisParameters ==
    { Parameters(<<"bob", "charlie">>, 1),
      Parameters(<<"bob", "charlie">>, 2),
      Parameters(<<"alice", "bob", "charlie">>, 2) }

(* ------------------------------------------------------------------ *)
(* Errors                                                               *)
(* ------------------------------------------------------------------ *)
Ok == "Ok"
InvalidArgument == "InvalidArgument"
NotAuthorized == "NotAuthorized"
InvalidSequenceNumber == "InvalidSequenceNumber"
InsufficientBalance == "InsufficientBalance"
AlreadySubmittedSignature == "AlreadySubmittedSignature"
UnsupportedDenomination == "UnsupportedDenomination"

\* Mutant: every accounts error is reported as InvalidArgument.
ErrorFromAccountsInvalid(e) == InvalidArgument

\* impl From<modules::accounts::Error> for Error
ErrorFromAccounts(e) ==
    IF e = "InsufficientBalance" THEN InsufficientBalance ELSE InvalidArgument

(* ------------------------------------------------------------------ *)
(* Accounts collaborator (modules::accounts::API)                       *)
(* ------------------------------------------------------------------ *)
\* Each primitive returns [err, balances]; err = Ok on success.
sub_amount(bal, addr, amount) ==
    IF bal[addr][amount.denomination] < amount.quantity
    THEN [err |-> "InsufficientBalance", balances |-> bal]
    ELSE [err |-> Ok,
          balances |-> [bal EXCEPT ![addr][amount.denomination] = @ - amount.quantity]]

add_amount(bal, addr, amount) ==
    [err |-> Ok,
     balances |-> [bal EXCEPT ![addr][amount.denomination] = @ + amount.quantity]]

\* transfer(from, to, amount): debit the source, then credit the destination.
AccountsTransfer(bal, from, to, amount) ==
    LET s == sub_amount(bal, from, amount)
    IN IF s.err # Ok THEN s ELSE add_amount(s.balances, to, amount)

\* mint(to, amount)
AccountsMint(bal, to, amount) == add_amount(bal, to, amount)

\* burn(from, amount)
AccountsBurn(bal, from, amount) == sub_amount(bal, from, amount)

(* ------------------------------------------------------------------ *)
(* Types (types.rs)                                                     *)
(* ------------------------------------------------------------------ *)
\* Operation::Lock(body), Operation::Release(body)
OperationLock(body) == [kind |-> "lock", body |-> body]
OperationRelease(body) == [kind |-> "release", body |-> body]

\* cbor::to_vec(op): the variant tag followed by the body's fields in canonical key
\* order (shorter keys first: "id", "amount", "target"); the amount is an array.
CborToVec(op) ==
    IF op.kind = "lock"
    THEN <<"lock", <<op.body.amount.quantity, op.body.amount.denomination>>,
           op.body.target>>
    ELSE <<"release", op.body.id,
           <<op.body.amount.quantity, op.body.amount.denomination>>,
           op.body.target>>

\* Hash::digest_bytes: collision-free on the encodings, so a digest is
\* represented by the byte string it was computed from.
HashDigestBytes(bytes) == <<"hash", bytes>>

\* impl From<&Operation> for OperationId
OperationIdFrom(op) == HashDigestBytes(CborToVec(op))

\* WitnessSignatures::new(id, op)
WitnessSignaturesNew(id, op) ==
    [id |-> id, op |-> op, witnesses |-> <<>>, signatures |-> <<>>]

\* IncomingWitnessSignatures::default()
IncomingWitnessSignaturesDefault == [ops |-> <<>>, witnesses |-> <<>>]

(* ------------------------------------------------------------------ *)
(* Storage helpers                                                      *)
(* ------------------------------------------------------------------ *)
\* tstore.get(key).unwrap_or_default() of a u64 cell: <<>> is an absent key.
GetOrDefault(cell) == IF cell = <<>> THEN 0 ELSE cell[1]

\* TypedStore::insert / remove / get on a keyed map (StoreRemoveForgotten is the
\* mutant that keeps the key, StoreInsertFirstKey the mutant that writes under
\* key 0).
StoreInsertFirstKey(m, k, v) == [x \in (DOMAIN m) \cup {0} |-> IF x = 0 THEN v ELSE m[x]]
StoreInsert(m, k, v) == [x \in (DOMAIN m) \cup {k} |-> IF x = k THEN v ELSE m[x]]
StoreRemoveForgotten(m, k) == m
StoreRemove(m, k) == [x \in (DOMAIN m) \ {k} |-> m[x]]
StoreHas(m, k) == k \in DOMAIN m

\* Mutant: a recorded index is never found.
ContainsNever(seq, x) == FALSE

\* info.witnesses.iter().any(|i| i == index)
Contains(seq, x) == \E i \in 1..Len(seq) : seq[i] = x

SeqToSet(seq) == {seq[i] : i \in 1..Len(seq)}

(* ------------------------------------------------------------------ *)
(* State                                                                *)
(* ------------------------------------------------------------------ *)
VARIABLES
    params,                  \* Parameters installed at genesis
    NEXT_OUT_SEQUENCE,       \* state::NEXT_OUT_SEQUENCE cell (<<>> when never written)
    NEXT_IN_SEQUENCE,        \* state::NEXT_IN_SEQUENCE cell (<<>> when never written)
    OUT_WITNESS_SIGNATURES,  \* outgoing id -> WitnessSignatures
    IN_WITNESS_SIGNATURES,   \* incoming id -> IncomingWitnessSignatures
    balances,                \* accounts ledger: address -> denomination -> quantity
    events,                  \* events emitted by the last committed transaction
    attested,                \* history: committed Release attestations {index, op} for
                             \* the incoming id attested last
    locked,                  \* history: denomination -> sum of the amounts of committed Locks
    released,                \* history: denomination -> sum of the amounts of Release events
    snapshot,                \* history: the balances before the last Lock of a local
                             \* denomination, until another transfer touches them
    agreed,                  \* SpecProgress: the Release body the honest witnesses submit
    witnessed,               \* history: committed Witness attestations {index, id}
    signed,                  \* history: outgoing id -> number of WitnessesSigned events
    finalized,               \* history: incoming id -> number of Release events
    version,                 \* meta.versions entry of the module (0 when absent)
    genesis,                 \* history: the parameters of the genesis that initialised
                             \* the module (NoGenesis before)
    reply                    \* the value returned by the last query, until the next
                             \* transaction (NoReply otherwise)

vars == <<params, NEXT_OUT_SEQUENCE, NEXT_IN_SEQUENCE, OUT_WITNESS_SIGNATURES,
          IN_WITNESS_SIGNATURES, balances, events, attested, locked, released,
          snapshot, agreed, witnessed, signed, finalized, version, genesis,
          reply>>

\* The transaction's view of the runtime state.
Cur ==
    [next_out |-> NEXT_OUT_SEQUENCE, next_in |-> NEXT_IN_SEQUENCE,
     out_sigs |-> OUT_WITNESS_SIGNATURES, in_sigs |-> IN_WITNESS_SIGNATURES,
     balances |-> balances, events |-> <<>>]

(* ------------------------------------------------------------------ *)
(* Handlers (lib.rs)                                                    *)
(* ------------------------------------------------------------------ *)
\* Mutant: a denomination that is not remote is taken for local.
ensure_local_or_remote_lenient(p, denomination) ==
    IF denomination \in DOMAIN p.remote_denominations THEN "remote" ELSE "local"

\* Module::ensure_local_or_remote: "local", "remote" or UnsupportedDenomination.
ensure_local_or_remote(p, denomination) ==
    IF denomination \in p.local_denominations THEN "local"
    ELSE IF denomination \in DOMAIN p.remote_denominations THEN "remote"
    ELSE UnsupportedDenomination

\* Mutant: every caller is taken for the first witness.
FindWitnessAnyone(p, caller) == 0

\* params.witnesses.iter().enumerate().find(|(_, pk)| Address::from_pk(pk) == caller):
\* the 0-based index of the first matching key, -1 when there is none.
FindWitness(p, caller) ==
    LET hits == {i \in 1..Len(p.witnesses) : p.witnesses[i] = caller}
    IN IF hits = {} THEN -1
       ELSE (CHOOSE i \in hits : \A j \in hits : i <= j) - 1

\* Mutant: one signature more than the threshold is required.
WitnessNotEnoughOffByOne(info, threshold) == Len(info.witnesses) <= threshold

\* tx_witness: (info.witnesses.len() as u64) < params.threshold
WitnessNotEnough(info, threshold) == Len(info.witnesses) < threshold

\* Mutant: the threshold is compared with the slot-level witness list.
ReleaseNotEnoughSlotLevel(info, op_sigs, threshold) == Len(info.witnesses) < threshold

\* Mutant: one attestation more than the threshold is required.
ReleaseNotEnoughOffByOne(info, op_sigs, threshold) == Len(op_sigs.witnesses) <= threshold

\* tx_release: (op_sigs.witnesses.len() as u64) < params.threshold, where op_sigs is
\* the bucket of the attested operation inside the slot info.
ReleaseNotEnough(info, op_sigs, threshold) == Len(op_sigs.witnesses) < threshold

\* Mutant: future sequence numbers are accepted.
SequenceOkAcceptsFuture(id, expected_id) == id >= expected_id

\* Mutant: past sequence numbers are accepted.
SequenceOkAcceptsPast(id, expected_id) == id <= expected_id

\* tx_release: body.id != expected_id is refused.
SequenceOk(id, expected_id) == id = expected_id

\* Mutant: the index is not recorded on the slot.
SlotWitnessesPushForgotten(witnesses, index) == witnesses

\* tx_release: info.witnesses.push(index)
SlotWitnessesPush(witnesses, index) == Append(witnesses, index)

\* Mutant: the signature is put in front of the list.
SignaturesPushFront(signatures, signature) == <<signature>> \o signatures

\* tx_witness: info.signatures.push(body.signature)
SignaturesPush(signatures, signature) == Append(signatures, signature)

\* Mutant: the counter skips an id.
NextOutSkips(id) == id + 2

\* tx_lock: tstore.insert(state::NEXT_OUT_SEQUENCE, &(id + 1))
NextOut(id) == id + 1

\* Mutant: the custody address burns after every Lock.
LockBurnsAlways(remote) == TRUE

\* tx_lock: remote.is_some() decides the burn.
LockBurns(remote) == remote = "remote"

\* Mutants: a finalizing Release never mints; it always mints.
ReleaseMintsNever(remote) == FALSE
ReleaseMintsAlways(remote) == TRUE

\* tx_release: `if let Some(_remote) = remote` decides the mint.
ReleaseMints(remote) == remote = "remote"

\* Mutant: the handlers do not look at the mode.
is_check_only_ignored(check) == FALSE

\* ctx.is_check_only()
is_check_only(check) == check

\* A handler's outcome: the result, the returned id (Lock) and the state as the
\* handler left it, partial mutations of a late error included.
Outcome(result, id, st) == [result |-> result, id |-> id, st |-> st]

\* Module::tx_lock
tx_lock(p, st, caller, body, check) ==
    LET remote == ensure_local_or_remote(p, body.amount.denomination) IN
    IF remote = UnsupportedDenomination THEN Outcome(UnsupportedDenomination, 0, st)
    ELSE IF is_check_only(check) THEN Outcome(Ok, 0, st)
    ELSE
    LET t == AccountsTransfer(st.balances, caller, ADDRESS_LOCKED_FUNDS, body.amount) IN
    IF t.err # Ok THEN Outcome(ErrorFromAccounts(t.err), 0, st)
    ELSE
    LET id == GetOrDefault(st.next_out)
        st1 == [st EXCEPT !.balances = t.balances,
                          !.next_out = <<NextOut(id)>>,
                          !.out_sigs = StoreInsert(@, id,
                                          WitnessSignaturesNew(id, OperationLock(body)))]
        b == IF LockBurns(remote)
             THEN AccountsBurn(st1.balances, ADDRESS_LOCKED_FUNDS, body.amount)
             ELSE [err |-> Ok, balances |-> st1.balances]
    IN IF b.err # Ok THEN Outcome(ErrorFromAccounts(b.err), 0, st1)
       ELSE Outcome(Ok, id,
                [st1 EXCEPT !.balances = b.balances,
                            !.events = Append(@, [type |-> "Lock", id |-> id,
                                                  owner |-> caller,
                                                  target |-> body.target,
                                                  amount |-> body.amount])])

\* Module::tx_witness
tx_witness(p, st, caller, body, check) ==
    IF is_check_only(check) THEN Outcome(Ok, 0, st)
    ELSE
    LET index == FindWitness(p, caller) IN
    IF index = -1 THEN Outcome(NotAuthorized, 0, st)
    ELSE IF ~StoreHas(st.out_sigs, body.id) THEN Outcome(InvalidSequenceNumber, 0, st)
    ELSE
    LET info == st.out_sigs[body.id] IN
    IF Contains(info.witnesses, index) THEN Outcome(AlreadySubmittedSignature, 0, st)
    ELSE
    LET info1 == [info EXCEPT !.witnesses = Append(@, index),
                              !.signatures = SignaturesPush(@, body.signature)]
    IN IF WitnessNotEnough(info1, p.threshold)
       THEN Outcome(Ok, 0, [st EXCEPT !.out_sigs = StoreInsert(@, body.id, info1)])
       ELSE Outcome(Ok, 0,
                [st EXCEPT !.out_sigs = StoreRemove(@, body.id),
                           !.events = Append(@, [type |-> "WitnessesSigned",
                                                 info |-> info1])])

\* Module::tx_release
tx_release(p, st, caller, body, check) ==
    LET remote == ensure_local_or_remote(p, body.amount.denomination) IN
    IF remote = UnsupportedDenomination THEN Outcome(UnsupportedDenomination, 0, st)
    ELSE IF is_check_only(check) THEN Outcome(Ok, 0, st)
    ELSE
    LET index == FindWitness(p, caller) IN
    IF index = -1 THEN Outcome(NotAuthorized, 0, st)
    ELSE
    LET expected_id == GetOrDefault(st.next_in) IN
    IF ~SequenceOk(body.id, expected_id) THEN Outcome(InvalidSequenceNumber, 0, st)
    ELSE
    LET info == IF StoreHas(st.in_sigs, body.id) THEN st.in_sigs[body.id]
                ELSE IncomingWitnessSignaturesDefault
    IN
    IF Contains(info.witnesses, index) THEN Outcome(AlreadySubmittedSignature, 0, st)
    ELSE
    LET op == OperationRelease(body)
        op_id == OperationIdFrom(op)
        \* info.ops.entry(op_id).or_insert_with(|| WitnessSignatures::new(body.id, op))
        bucket == IF StoreHas(info.ops, op_id) THEN info.ops[op_id]
                  ELSE WitnessSignaturesNew(body.id, op)
        op_sigs == [bucket EXCEPT !.witnesses = Append(@, index)]
        info1 == [ops |-> StoreInsert(info.ops, op_id, op_sigs),
                  witnesses |-> SlotWitnessesPush(info.witnesses, index)]
    IN
    IF ReleaseNotEnough(info1, op_sigs, p.threshold)
    THEN Outcome(Ok, 0, [st EXCEPT !.in_sigs = StoreInsert(@, body.id, info1)])
    ELSE
    LET st1 == [st EXCEPT !.in_sigs = StoreRemove(@, body.id),
                          !.next_in = <<expected_id + 1>>]
        m == IF ReleaseMints(remote)
             THEN AccountsMint(st1.balances, ADDRESS_LOCKED_FUNDS, body.amount)
             ELSE [err |-> Ok, balances |-> st1.balances]
    IN
    IF m.err # Ok THEN Outcome(ErrorFromAccounts(m.err), 0, st1)
    ELSE
    LET st2 == [st1 EXCEPT !.balances = m.balances]
        t == AccountsTransfer(st2.balances, ADDRESS_LOCKED_FUNDS, body.target, body.amount)
    IN
    IF t.err # Ok THEN Outcome(ErrorFromAccounts(t.err), 0, st2)
    ELSE Outcome(Ok, 0,
             [st2 EXCEPT !.balances = t.balances,
                         !.events = Append(@, [type |-> "Release", id |-> body.id,
                                               target |-> body.target,
                                               amount |-> body.amount])])

(* ------------------------------------------------------------------ *)
(* Transaction dispatch                                                 *)
(* ------------------------------------------------------------------ *)
\* Mutant: the host commits the mutations of a failed transaction too.
CommitsOnError(out, check) == ~check

\* The host commits a transaction's mutations and events when it was executed (not
\* merely checked) and its handler returned Ok; otherwise it discards them all.
Commits(out, check) == out.result = Ok /\ ~check

Committed(st, out, check) == IF Commits(out, check) THEN out.st ELSE st

Install(st) ==
    /\ NEXT_OUT_SEQUENCE' = st.next_out
    /\ NEXT_IN_SEQUENCE' = st.next_in
    /\ OUT_WITNESS_SIGNATURES' = st.out_sigs
    /\ IN_WITNESS_SIGNATURES' = st.in_sigs
    /\ balances' = st.balances
    /\ events' = st.events

Commit(out, check) ==
    IF Commits(out, check) THEN Install(out.st)
    ELSE UNCHANGED <<NEXT_OUT_SEQUENCE, NEXT_IN_SEQUENCE, OUT_WITNESS_SIGNATURES,
                     IN_WITNESS_SIGNATURES, balances, events>>

\* The events a call commits.
Emitted(out, check) == IF Commits(out, check) THEN out.st.events ELSE <<>>

(* ------------------------------------------------------------------ *)
(* History                                                              *)
(* ------------------------------------------------------------------ *)
\* Sum of the amounts in denomination d of the events of one type in evs.
RECURSIVE EventSum(_, _, _)
EventSum(evs, type, d) ==
    IF evs = <<>> THEN 0
    ELSE (IF Head(evs).type = type /\ Head(evs).amount.denomination = d
          THEN Head(evs).amount.quantity ELSE 0) + EventSum(Tail(evs), type, d)

\* Number of WitnessesSigned events for outgoing id n in evs.
SignedCount(evs, n) ==
    Cardinality({i \in 1..Len(evs) : evs[i].type = "WitnessesSigned" /\ evs[i].info.id = n})

\* Number of Release events for incoming id n in evs.
ReleasedCount(evs, n) ==
    Cardinality({i \in 1..Len(evs) : evs[i].type = "Release" /\ evs[i].id = n})

HasEvent(evs, type) == \E i \in 1..Len(evs) : evs[i].type = type

NoSnapshot == [state |-> "none"]

\* After a committed Lock: the balances of the caller and of custody before it,
\* when the denomination is local.
SnapshotAfterLock(caller, body) ==
    IF ensure_local_or_remote(params, body.amount.denomination) = "local"
    THEN [state |-> "locked", owner |-> caller, amount |-> body.amount,
          user_before |-> balances[caller][body.amount.denomination],
          custody_before |-> balances[ADDRESS_LOCKED_FUNDS][body.amount.denomination]]
    ELSE NoSnapshot

\* After a committed Release that emitted its event: "returned" when it released the
\* locked amount to the locker, nothing otherwise.
SnapshotAfterRelease(body) ==
    IF snapshot.state = "locked" /\ body.target = snapshot.owner
          /\ body.amount = snapshot.amount
    THEN [snapshot EXCEPT !.state = "returned"]
    ELSE NoSnapshot

(* ------------------------------------------------------------------ *)
(* Parameters validation, module lifecycle and queries                  *)
(* ------------------------------------------------------------------ *)
MaxThreshold == 3
U16Max == 65535
VERSION == 1

TooManyWitnesses == "TooManyWitnesses"
DenominationLocalAndRemote == "DenominationLocalAndRemote"

\* impl Default for Parameters: no witnesses, threshold 1, no denominations.
ParametersDefault ==
    [witnesses |-> <<>>, threshold |-> 1,
     local_denominations |-> {},
     remote_denominations |-> [d \in {} |-> "00"]]

\* Parameter sets a genesis document may carry: every threshold from 0 to
\* MaxThreshold over the two-witness list, the default parameters, and one set
\* that lists oETH both as local and as remote.
CandidateParameters ==
    { Parameters(<<"bob", "charlie">>, t) : t \in 0..MaxThreshold }
        \cup { ParametersDefault,
               [Parameters(<<"bob", "charlie">>, 1)
                   EXCEPT !.local_denominations = {"NATIVE", "oETH"}] }

Genesis(p) == [parameters |-> p]

CandidateGenesis == { Genesis(p) : p \in CandidateParameters }

\* Parameters::validate_basic
validate_basic(p) ==
    IF Len(p.witnesses) > U16Max THEN TooManyWitnesses
    ELSE IF \E rd \in DOMAIN p.remote_denominations : rd \in p.local_denominations
    THEN DenominationLocalAndRemote
    ELSE Ok

\* Module::init: the genesis parameters become the stored parameters.
init(g) == g.parameters

\* Module::migrate: no migrations are supported.
migrate(from) == FALSE

\* The test of init_or_migrate on the recorded version.
NotInitialisedAlways(v) == TRUE

NotInitialised(v) == v = 0

\* MigrationHandler::init_or_migrate on the stored parameters p and the recorded
\* version v: the new parameters, the new version and the returned flag.
init_or_migrate(p, v, g) ==
    IF NotInitialised(v)
    THEN [params |-> init(g), version |-> VERSION, result |-> TRUE]
    ELSE [params |-> p, version |-> v, result |-> migrate(v)]

\* Module::query_parameters
query_parameters_default(p) == ParametersDefault

query_parameters(p) == p

\* Module::query_next_sequence_numbers
query_next_sequence_numbers_swapped(st) ==
    [incoming |-> GetOrDefault(st.next_out), outgoing |-> GetOrDefault(st.next_in)]

query_next_sequence_numbers(st) ==
    [incoming |-> GetOrDefault(st.next_in), outgoing |-> GetOrDefault(st.next_out)]

\* History cells: empty, or holding one value.
NoGenesis == <<>>
NoReply == <<>>

(* ------------------------------------------------------------------ *)
(* Specification                                                        *)
(* ------------------------------------------------------------------ *)
NoBody == [id |-> 0, target |-> "nobody", amount |-> [quantity |-> 0, denomination |-> "BAD"]]

InitModule ==
    /\ params \in GenesisParameters
    /\ NEXT_OUT_SEQUENCE = <<>>
    /\ NEXT_IN_SEQUENCE = <<>>
    /\ OUT_WITNESS_SIGNATURES = <<>>
    /\ IN_WITNESS_SIGNATURES = <<>>
    /\ balances = [a \in Addresses |-> [d \in Denominations |->
                      IF a = "alice" /\ d = "NATIVE" THEN InitBalance ELSE 0]]
    /\ events = <<>>
    /\ attested = {}
    /\ locked = [d \in Denominations |-> 0]
    /\ released = [d \in Denominations |-> 0]
    /\ snapshot = NoSnapshot
    /\ witnessed = {}
    /\ signed = [n \in 0..MaxId |-> 0]
    /\ finalized = [n \in 0..MaxId |-> 0]
    /\ version = VERSION
    /\ genesis = <<Genesis(params)>>
    /\ reply = NoReply

Init == InitModule /\ agreed = NoBody

\* bridge.Lock
Lock(caller, body, check) ==
    /\ \E out \in {tx_lock(params, Cur, caller, body, check)} :
       /\ Commit(out, check)
       /\ locked' = [d \in Denominations |->
                        locked[d] + EventSum(Emitted(out, check), "Lock", d)]
       /\ snapshot' = IF Commits(out, check) THEN SnapshotAfterLock(caller, body)
                      ELSE snapshot
    /\ reply' = NoReply
    /\ UNCHANGED <<params, attested, released, agreed, witnessed, signed, finalized,
                   version, genesis>>

\* bridge.Witness
Witness(caller, body, check) ==
    /\ \E out \in {tx_witness(params, Cur, caller, body, check)} :
       /\ Commit(out, check)
       /\ witnessed' = IF Commits(out, check)
                       THEN witnessed \cup {[index |-> FindWitness(params, caller),
                                             id |-> body.id]}
                       ELSE witnessed
       /\ signed' = [n \in 0..MaxId |->
                        signed[n] + SignedCount(Emitted(out, check), n)]
    /\ reply' = NoReply
    /\ UNCHANGED <<params, attested, locked, released, snapshot, agreed, finalized,
                   version, genesis>>

\* bridge.Release
Release(caller, body, check) ==
    /\ \E out \in {tx_release(params, Cur, caller, body, check)} :
       /\ Commit(out, check)
       /\ attested' = IF Commits(out, check)
                      THEN {a \in attested : a.op.body.id = body.id}
                               \cup {[index |-> FindWitness(params, caller),
                                      op |-> OperationRelease(body)]}
                      ELSE attested
       /\ released' = [d \in Denominations |->
                          released[d] + EventSum(Emitted(out, check), "Release", d)]
       /\ snapshot' = IF HasEvent(Emitted(out, check), "Release")
                      THEN SnapshotAfterRelease(body)
                      ELSE snapshot
       /\ finalized' = [n \in 0..MaxId |->
                           finalized[n] + ReleasedCount(Emitted(out, check), n)]
    /\ reply' = NoReply
    /\ UNCHANGED <<params, locked, agreed, witnessed, signed, version, genesis>>

\* Any user submits Lock; any user submits Witness and Release (a user that is no
\* witness is refused).
SomeLock ==
    \E caller \in LockCallers, body \in LockBodies, check \in BOOLEAN :
        Lock(caller, body, check)

SomeWitness ==
    \E caller \in Users, body \in WitnessBodies, check \in BOOLEAN :
        Witness(caller, body, check)

SomeRelease ==
    \E caller \in Users, body \in ReleaseBodies, check \in BOOLEAN :
        Release(caller, body, check)

\* The composed module: outgoing and incoming state machines over one ledger.
Next ==
    \/ GetOrDefault(NEXT_OUT_SEQUENCE) < MaxOut /\ SomeLock
    \/ SomeWitness
    \/ GetOrDefault(NEXT_IN_SEQUENCE) < MaxIn /\ SomeRelease

Spec == Init /\ [][Next]_vars

\* The incoming state machine, with the Locks that fund the custody address.
NextIncoming ==
    \/ GetOrDefault(NEXT_OUT_SEQUENCE) < MaxOutIncoming /\ SomeLock
    \/ GetOrDefault(NEXT_IN_SEQUENCE) < MaxInIncoming /\ SomeRelease

SpecIncoming == Init /\ [][NextIncoming]_vars

\* The outgoing state machine: alice holds InitBalanceOutgoing of the native
\* denomination and bob InitBalance of the remote one.
InitOutgoing ==
    /\ params \in GenesisParameters
    /\ NEXT_OUT_SEQUENCE = <<>>
    /\ NEXT_IN_SEQUENCE = <<>>
    /\ OUT_WITNESS_SIGNATURES = <<>>
    /\ IN_WITNESS_SIGNATURES = <<>>
    /\ balances = [a \in Addresses |-> [d \in Denominations |->
                      IF a = "alice" /\ d = "NATIVE" THEN InitBalanceOutgoing
                      ELSE IF a = "bob" /\ d = "oETH" THEN InitBalance ELSE 0]]
    /\ events = <<>>
    /\ attested = {}
    /\ locked = [d \in Denominations |-> 0]
    /\ released = [d \in Denominations |-> 0]
    /\ snapshot = NoSnapshot
    /\ witnessed = {}
    /\ signed = [n \in 0..MaxId |-> 0]
    /\ finalized = [n \in 0..MaxId |-> 0]
    /\ agreed = NoBody
    /\ version = VERSION
    /\ genesis = <<Genesis(params)>>
    /\ reply = NoReply

NextOutgoing ==
    \/ GetOrDefault(NEXT_OUT_SEQUENCE) < MaxOutOutgoing /\ SomeLock
    \/ SomeWitness

SpecOutgoing == InitOutgoing /\ [][NextOutgoing]_vars

\* The module from before its initialisation: the host calls init_or_migrate with
\* a genesis document at any time (at genesis, and again on every later upgrade),
\* users submit transactions and queries.
InitLifecycle ==
    /\ params = ParametersDefault
    /\ NEXT_OUT_SEQUENCE = <<>>
    /\ NEXT_IN_SEQUENCE = <<>>
    /\ OUT_WITNESS_SIGNATURES = <<>>
    /\ IN_WITNESS_SIGNATURES = <<>>
    /\ balances = [a \in Addresses |-> [d \in Denominations |->
                      IF a = "alice" /\ d = "NATIVE" THEN InitBalance ELSE 0]]
    /\ events = <<>>
    /\ attested = {}
    /\ locked = [d \in Denominations |-> 0]
    /\ released = [d \in Denominations |-> 0]
    /\ snapshot = NoSnapshot
    /\ witnessed = {}
    /\ signed = [n \in 0..MaxId |-> 0]
    /\ finalized = [n \in 0..MaxId |-> 0]
    /\ agreed = NoBody
    /\ version = 0
    /\ genesis = NoGenesis
    /\ reply = NoReply

\* MigrationHandler::init_or_migrate
InitOrMigrate(g) ==
    /\ \E out \in {init_or_migrate(params, version, g)} :
       /\ params' = out.params
       /\ version' = out.version
       /\ genesis' = IF out.result THEN <<g>> ELSE genesis
    /\ reply' = NoReply
    /\ UNCHANGED <<NEXT_OUT_SEQUENCE, NEXT_IN_SEQUENCE, OUT_WITNESS_SIGNATURES,
                   IN_WITNESS_SIGNATURES, balances, events, attested, locked,
                   released, snapshot, agreed, witnessed, signed, finalized>>

SomeInitOrMigrate == \E g \in CandidateGenesis : InitOrMigrate(g)

\* bridge.Parameters
QueryParameters ==
    /\ reply' = <<[kind |-> "Parameters", value |-> query_parameters(params)]>>
    /\ UNCHANGED <<params, NEXT_OUT_SEQUENCE, NEXT_IN_SEQUENCE,
                   OUT_WITNESS_SIGNATURES, IN_WITNESS_SIGNATURES, balances, events,
                   attested, locked, released, snapshot, agreed, witnessed, signed,
                   finalized, version, genesis>>

\* bridge.NextSequenceNumbers
QueryNextSequenceNumbers ==
    /\ reply' = <<[kind |-> "NextSequenceNumbers",
                   value |-> query_next_sequence_numbers(Cur)]>>
    /\ UNCHANGED <<params, NEXT_OUT_SEQUENCE, NEXT_IN_SEQUENCE,
                   OUT_WITNESS_SIGNATURES, IN_WITNESS_SIGNATURES, balances, events,
                   attested, locked, released, snapshot, agreed, witnessed, signed,
                   finalized, version, genesis>>

NextLifecycle ==
    \/ SomeInitOrMigrate
    \/ GetOrDefault(NEXT_OUT_SEQUENCE) < MaxOut /\ SomeLock
    \/ SomeWitness
    \/ GetOrDefault(NEXT_IN_SEQUENCE) < MaxIn /\ SomeRelease
    \/ QueryParameters
    \/ QueryNextSequenceNumbers

SpecLifecycle == InitLifecycle /\ [][NextLifecycle]_vars

(* ------------------------------------------------------------------ *)
(* Vocabulary of the properties                                         *)
(* ------------------------------------------------------------------ *)
Expected == GetOrDefault(NEXT_IN_SEQUENCE)

IsWitness(u) == \E i \in 1..Len(params.witnesses) : params.witnesses[i] = u

Supported(d) == d \in params.local_denominations \cup DOMAIN params.remote_denominations

Custody(d) == balances[ADDRESS_LOCKED_FUNDS][d]

\* The outcome of a call made in the current state.
LockCall(caller, body, check) == tx_lock(params, Cur, caller, body, check)
WitnessCall(caller, body, check) == tx_witness(params, Cur, caller, body, check)
ReleaseCall(caller, body, check) == tx_release(params, Cur, caller, body, check)

\* The operation a Release event reports.
ReleasedOp(e) == OperationRelease([id |-> e.id, target |-> e.target, amount |-> e.amount])

\* The witness indices that attested exactly op.
Attesters(att, op) == {a.index : a \in {x \in att : x.op = op}}

\* The caller's index is on the incoming slot n.
OnSlot(u, n) ==
    /\ IsWitness(u)
    /\ StoreHas(IN_WITNESS_SIGNATURES, n)
    /\ Contains(IN_WITNESS_SIGNATURES[n].witnesses, FindWitness(params, u))

\* The caller attested, for id n, an operation other than Release(body).
AttestedOther(u, body) ==
    \E a \in attested :
        /\ a.index = FindWitness(params, u)
        /\ a.op.body.id = body.id
        /\ (a.op.body.target # body.target \/ a.op.body.amount # body.amount)

(* ------------------------------------------------------------------ *)
(* C1                                                                   *)
(* ------------------------------------------------------------------ *)
\* C1: a Release event for an operation is emitted only by a call after which at
\* least `threshold` distinct witness indices have attested that identical
\* operation (attestations of other operations for the id do not count), and a
\* user's balance grows only in such a call, by the amount of the event that
\* names the user as target, for the expected incoming id.
C1_ThresholdSafety ==
    [][ /\ HasEvent(events', "Release") =>
              Cardinality(Attesters(attested', ReleasedOp(events'[1]))) >= params.threshold
        /\ \A a \in Users, d \in Denominations :
              balances'[a][d] > balances[a][d] =>
                  /\ Len(events') = 1
                  /\ events'[1].type = "Release"
                  /\ events'[1].id = Expected
                  /\ events'[1].target = a
                  /\ events'[1].amount = [quantity |-> balances'[a][d] - balances[a][d],
                                          denomination |-> d] ]_vars

\* A finalized id for which a dissenting attestation had been recorded.
C1_Witness ==
    /\ HasEvent(events, "Release")
    /\ params.threshold = 2
    /\ \E x \in attested : x.op.body.id = events[1].id /\ x.op # ReleasedOp(events[1])
    /\ balances[events[1].target][events[1].amount.denomination] > 0

(* ------------------------------------------------------------------ *)
(* C2                                                                   *)
(* ------------------------------------------------------------------ *)
\* C2 as stated: a witness whose index is on the incoming slot for id n and who
\* calls Release for id n with a different operation (different target or amount)
\* fails with AlreadySubmittedSignature and is added to no bucket.
C2_Original ==
    \A u \in Users, body \in ReleaseBodies :
        (OnSlot(u, body.id) /\ AttestedOther(u, body)) =>
            /\ ReleaseCall(u, body, FALSE).result = AlreadySubmittedSignature
            /\ ReleaseCall(u, body, FALSE).st.in_sigs = IN_WITNESS_SIGNATURES

\* C2 amended: in every persisted incoming slot a witness index is in at most one
\* bucket; an executed Release for id n, with a different operation of a supported
\* denomination, by a witness whose index is on the slot for n fails with
\* AlreadySubmittedSignature and is added to no bucket.
C2_SlotLevelUniqueness ==
    /\ \A n \in DOMAIN IN_WITNESS_SIGNATURES, i \in 0..(Len(params.witnesses) - 1) :
          Cardinality({k \in DOMAIN IN_WITNESS_SIGNATURES[n].ops :
                          Contains(IN_WITNESS_SIGNATURES[n].ops[k].witnesses, i)}) <= 1
    /\ \A u \in Users, body \in ReleaseBodies :
          (OnSlot(u, body.id) /\ AttestedOther(u, body)
              /\ Supported(body.amount.denomination)) =>
              /\ ReleaseCall(u, body, FALSE).result = AlreadySubmittedSignature
              /\ ReleaseCall(u, body, FALSE).st.in_sigs = IN_WITNESS_SIGNATURES

\* Two buckets are open on a slot and a witness of one of them is refused on the other.
C2_Witness ==
    \E u \in Users, body \in ReleaseBodies :
        /\ OnSlot(u, body.id) /\ AttestedOther(u, body)
        /\ Supported(body.amount.denomination)
        /\ StoreHas(IN_WITNESS_SIGNATURES[body.id].ops,
                    OperationIdFrom(OperationRelease(body)))
        /\ ReleaseCall(u, body, FALSE).result = AlreadySubmittedSignature

(* ------------------------------------------------------------------ *)
(* C3                                                                   *)
(* ------------------------------------------------------------------ *)
\* C3: NEXT_IN_SEQUENCE changes only from n to n + 1, and only in the Release call
\* that emits the Release event of id n, in which the bucket of the released
\* operation on slot n goes from threshold - 1 attestations to the threshold and
\* the slot is deleted.
C3_NextInMonotonic ==
    [][ NEXT_IN_SEQUENCE' # NEXT_IN_SEQUENCE =>
          /\ NEXT_IN_SEQUENCE' = <<Expected + 1>>
          /\ Len(events') = 1
          /\ events'[1].type = "Release"
          /\ events'[1].id = Expected
          /\ LET k == OperationIdFrom(ReleasedOp(events'[1]))
                 before == IF StoreHas(IN_WITNESS_SIGNATURES, Expected)
                              /\ StoreHas(IN_WITNESS_SIGNATURES[Expected].ops, k)
                           THEN Len(IN_WITNESS_SIGNATURES[Expected].ops[k].witnesses)
                           ELSE 0
             IN before + 1 = params.threshold
          /\ ~StoreHas(IN_WITNESS_SIGNATURES', Expected) ]_vars

\* The counter advanced twice, the second time over a slot with two buckets.
C3_Witness ==
    /\ NEXT_IN_SEQUENCE = <<2>>
    /\ \E x \in attested : x.op.body.id = 1 /\ x.op # ReleasedOp(events[1])

(* ------------------------------------------------------------------ *)
(* C4                                                                   *)
(* ------------------------------------------------------------------ *)
\* C4 as stated: a Release call by a witness whose id differs from NEXT_IN_SEQUENCE
\* fails with InvalidSequenceNumber and records no attestation.
C4_Original ==
    \A u \in Users, body \in ReleaseBodies :
        (IsWitness(u) /\ body.id # Expected) =>
            /\ ReleaseCall(u, body, FALSE).result = InvalidSequenceNumber
            /\ ReleaseCall(u, body, FALSE).st.in_sigs = IN_WITNESS_SIGNATURES

\* C4 amended: an executed Release call with a supported denomination by a witness
\* whose id differs from NEXT_IN_SEQUENCE (larger or smaller) fails with
\* InvalidSequenceNumber; in either mode and with any denomination such a call
\* records no attestation.
C4_StrictInOrder ==
    \A u \in Users, body \in ReleaseBodies :
        (IsWitness(u) /\ body.id # Expected) =>
            /\ Supported(body.amount.denomination) =>
                  ReleaseCall(u, body, FALSE).result = InvalidSequenceNumber
            /\ \A check \in BOOLEAN :
                  ReleaseCall(u, body, check).st.in_sigs = IN_WITNESS_SIGNATURES

\* Id 0 is finalized and id 1 expected: a witness is refused for the past id 0 and
\* for the future id 2.
C4_Witness ==
    /\ Expected = 1
    /\ \E u \in Users, body \in ReleaseBodies :
          /\ IsWitness(u) /\ body.id = 0 /\ Supported(body.amount.denomination)
          /\ ReleaseCall(u, body, FALSE).result = InvalidSequenceNumber
          /\ ReleaseCall(u, [body EXCEPT !.id = 2], FALSE).result = InvalidSequenceNumber

(* ------------------------------------------------------------------ *)
(* C5                                                                   *)
(* ------------------------------------------------------------------ *)
\* The committed attestations for the incoming id n that is still open.
Pending(n) == {a \in attested : a.op.body.id = n /\ n = Expected}

\* Pending attestations together with the attestation of Release(body) by u.
WithCall(u, body) ==
    Pending(Expected) \cup {[index |-> FindWitness(params, u), op |-> OperationRelease(body)]}

\* A first-time attestation of Release(body) by witness u for the expected id is
\* the next call of a divergence scenario around operation B: at most `threshold`
\* attestations of B and at most |witnesses| - threshold of other operations.
InDivergence(u, body, B) ==
    /\ IsWitness(u)
    /\ \A a \in Pending(Expected) : a.index # FindWitness(params, u)
    /\ body.id = Expected /\ B.id = Expected
    /\ Cardinality({a \in WithCall(u, body) : a.op = OperationRelease(B)})
          <= params.threshold
    /\ Cardinality({a \in WithCall(u, body) : a.op # OperationRelease(B)})
          <= Len(params.witnesses) - params.threshold

\* The call of u completes the bucket of B.
Completes(u, body, B) ==
    /\ body = B
    /\ Cardinality({a \in WithCall(u, body) : a.op = OperationRelease(B)})
          = params.threshold

\* The balances after a finalized Release(B): the amount is minted into custody
\* when the denomination is remote, and moved from custody to the target.
BalancesAfterRelease(B) ==
    [a \in Addresses |-> [d \in Denominations |->
        IF d # B.amount.denomination THEN balances[a][d]
        ELSE balances[a][d]
               + (IF a = B.target THEN B.amount.quantity ELSE 0)
               + (IF a = ADDRESS_LOCKED_FUNDS /\ d \in DOMAIN params.remote_denominations
                  THEN B.amount.quantity ELSE 0)
               - (IF a = ADDRESS_LOCKED_FUNDS THEN B.amount.quantity ELSE 0)]]

\* C5 as stated: every call of a divergence scenario returns success, the call
\* that completes B's bucket credits exactly B's amount to B's target, and a call
\* for a dissenting operation credits nothing.
C5_Original ==
    \A u \in Users, body \in ReleaseBodies, B \in ReleaseBodies :
        InDivergence(u, body, B) =>
            \E out \in {ReleaseCall(u, body, FALSE)} :
                /\ out.result = Ok
                /\ body # B => out.st.balances = balances
                /\ Completes(u, body, B) =>
                      out.st.balances[B.target][B.amount.denomination] =
                          balances[B.target][B.amount.denomination] + B.amount.quantity

\* C5 amended: in a divergence scenario with supported denominations in which
\* every operation other than B gathers fewer than `threshold` attestations, a call
\* that does not complete B's bucket returns success and moves no funds; the call
\* that completes B's bucket returns success, emits Release(B) and moves B's amount
\* from custody (minted there first when remote) to B's target, except that for a
\* local denomination of which custody holds less than B's amount it fails with
\* InsufficientBalance.
C5_DivergenceAbsorbed ==
    \A u \in Users, body \in ReleaseBodies, B \in ReleaseBodies :
        (/\ InDivergence(u, body, B)
         /\ Supported(body.amount.denomination)
         /\ \A a \in WithCall(u, body) :
               a.op # OperationRelease(B) =>
                   Cardinality({x \in WithCall(u, body) : x.op = a.op}) < params.threshold) =>
            \E out \in {ReleaseCall(u, body, FALSE)} :
                IF ~Completes(u, body, B)
                THEN /\ out.result = Ok
                     /\ out.st.balances = balances
                     /\ out.st.events = <<>>
                     /\ out.st.next_in = NEXT_IN_SEQUENCE
                ELSE IF B.amount.denomination \in params.local_denominations
                        /\ Custody(B.amount.denomination) < B.amount.quantity
                THEN out.result = InsufficientBalance
                ELSE /\ out.result = Ok
                     /\ out.st.balances = BalancesAfterRelease(B)
                     /\ out.st.events = <<[type |-> "Release", id |-> B.id,
                                           target |-> B.target, amount |-> B.amount]>>

\* With three witnesses and threshold 2: one dissenting attestation is pending and
\* the second attestation of B, paying a user, is the next call.
C5_Witness ==
    \E u \in Users, B \in ReleaseBodies :
        /\ Len(params.witnesses) = 3
        /\ InDivergence(u, B, B) /\ Completes(u, B, B)
        /\ \E a \in Pending(Expected) : a.op # OperationRelease(B)
        /\ B.target = "alice"
        /\ ReleaseCall(u, B, FALSE).result = Ok
        /\ ReleaseCall(u, B, FALSE).st.balances["alice"][B.amount.denomination]
              = balances["alice"][B.amount.denomination] + B.amount.quantity

(* ------------------------------------------------------------------ *)
(* C6                                                                   *)
(* ------------------------------------------------------------------ *)
\* Honest witnesses (witnesses of every genesis configuration, at least `threshold`
\* of them) submit the one agreed Release body for incoming id 0; the other users
\* submit anything.
Honest == {"bob", "charlie"}

InitProgress ==
    /\ InitModule
    /\ agreed \in {b \in ReleaseBodies : b.id = 0}

HonestRelease(h) == Release(h, agreed, FALSE)

ByzantineRelease ==
    \E caller \in Users \ Honest, body \in ReleaseBodies, check \in BOOLEAN :
        Release(caller, body, check)

NextProgress ==
    \/ \E h \in Honest : HonestRelease(h)
    \/ GetOrDefault(NEXT_IN_SEQUENCE) < MaxIn /\ ByzantineRelease
    \/ GetOrDefault(NEXT_OUT_SEQUENCE) < MaxOut /\ SomeLock

\* Every honest witness keeps submitting until its call is accepted.
SpecProgress ==
    /\ InitProgress
    /\ [][NextProgress]_vars
    /\ \A h \in Honest : WF_vars(HonestRelease(h))

\* The agreed operation can be paid out: its denomination is supported and, when
\* local, custody holds the amount.
Payable ==
    /\ Supported(agreed.amount.denomination)
    /\ agreed.amount.denomination \in params.local_denominations =>
          Custody(agreed.amount.denomination) >= agreed.amount.quantity

\* C6 as stated: when the honest witnesses all submit the agreed operation for the
\* expected incoming id 0, id 0 is eventually finalized.
C6_Original == <>(Expected > 0)

\* C6 amended: from any state in which the agreed operation can be paid out, the
\* honest witnesses' submissions eventually finalize id 0, whatever the others do.
C6_Progress == Payable ~> (Expected > 0)

\* Id 0 is finalized with the agreed operation although a third witness attested
\* another operation for it.
C6_Witness ==
    /\ Expected = 1
    /\ agreed.id = 0
    /\ HasEvent(events, "Release")
    /\ ReleasedOp(events[1]) = OperationRelease(agreed)
    /\ \E a \in attested : a.op # OperationRelease(agreed) /\ \E i \in 1..Len(params.witnesses) : params.witnesses[i] \notin Honest /\ a.index = i - 1

(* ------------------------------------------------------------------ *)
(* C7                                                                   *)
(* ------------------------------------------------------------------ *)
\* C7 (I1): for every local denomination d, the custody balance in d equals the sum
\* of the amounts of the committed Locks in d minus the sum of the amounts of the
\* finalized Releases in d.
C7_CustodyLocal ==
    \A d \in params.local_denominations : Custody(d) = locked[d] - released[d]

(* ------------------------------------------------------------------ *)
(* C8                                                                   *)
(* ------------------------------------------------------------------ *)
\* C8 (I2): in every committed state the custody address holds 0 in every remote
\* denomination.
C8_CustodyRemote ==
    \A d \in DOMAIN params.remote_denominations : Custody(d) = 0

(* ------------------------------------------------------------------ *)
(* C9                                                                   *)
(* ------------------------------------------------------------------ *)
\* Sum over all addresses of the balance in d.
RECURSIVE SumOver(_, _, _)
SumOver(bal, as, d) ==
    IF as = {} THEN 0
    ELSE LET a == CHOOSE x \in as : TRUE
         IN bal[a][d] + SumOver(bal, as \ {a}, d)

Total(bal, d) == SumOver(bal, Addresses, d)

\* A committed Lock changes NEXT_OUT_SEQUENCE; a committed Witness changes the
\* outgoing slots and nothing else of the outgoing state.
LockStep == NEXT_OUT_SEQUENCE' # NEXT_OUT_SEQUENCE
WitnessStep ==
    /\ NEXT_OUT_SEQUENCE' = NEXT_OUT_SEQUENCE
    /\ OUT_WITNESS_SIGNATURES' # OUT_WITNESS_SIGNATURES

\* C9 as stated (P1): for every denomination d the sum over all addresses of the
\* balance in d is the same before and after a successful Lock and a Witness call.
C9_Original ==
    [][ (LockStep \/ WitnessStep) =>
            \A d \in Denominations : Total(balances', d) = Total(balances, d) ]_vars

\* C9 amended: a Witness call and a successful Lock of a local denomination leave
\* the sum of every denomination unchanged; a successful Lock of amount A of a
\* remote denomination d lowers the sum of d by exactly A and leaves the others.
C9_TotalsUnderLockWitness ==
    [][ /\ WitnessStep => \A d \in Denominations : Total(balances', d) = Total(balances, d)
        /\ LockStep =>
              /\ Len(events') = 1 /\ events'[1].type = "Lock"
              /\ \A d \in Denominations :
                    Total(balances', d) =
                        Total(balances, d)
                          - (IF d = events'[1].amount.denomination
                                /\ d \in DOMAIN params.remote_denominations
                             THEN events'[1].amount.quantity ELSE 0) ]_vars

\* A remote denomination released to a user was locked again by that user and
\* burned; a local denomination is held in custody.
C9_Witness ==
    /\ HasEvent(events, "Lock")
    /\ events[1].amount.denomination \in DOMAIN params.remote_denominations
    /\ released[events[1].amount.denomination] = events[1].amount.quantity
    /\ Total(balances, events[1].amount.denomination) = 0
    /\ Total(balances, "NATIVE") = InitBalance

(* ------------------------------------------------------------------ *)
(* C10                                                                  *)
(* ------------------------------------------------------------------ *)
\* C10 (R1): after a user locked amount A of a local denomination d and a threshold
\* of witnesses then released A of d to that user for the expected incoming id,
\* the user's balance and the custody balance in d equal their values before the
\* Lock.
C10_RoundTrip ==
    snapshot.state = "returned" =>
        /\ balances[snapshot.owner][snapshot.amount.denomination] = snapshot.user_before
        /\ Custody(snapshot.amount.denomination) = snapshot.custody_before

\* The round trip happened, with two attestations.
C10_Witness ==
    /\ snapshot.state = "returned"
    /\ params.threshold = 2
    /\ HasEvent(events, "Release")
    /\ locked[snapshot.amount.denomination] = snapshot.amount.quantity
    /\ released[snapshot.amount.denomination] = snapshot.amount.quantity

(* ------------------------------------------------------------------ *)
(* C11                                                                  *)
(* ------------------------------------------------------------------ *)
\* The witness index of u committed a Witness call for outgoing id n.
Witnessed(u, n) ==
    IsWitness(u) /\ [index |-> FindWitness(params, u), id |-> n] \in witnessed

\* The witness index of u committed a Release call for incoming id n.
Attested(u, n) ==
    IsWitness(u) /\ \E a \in attested :
                        a.index = FindWitness(params, u) /\ a.op.body.id = n

\* C11 as stated (R2): a Witness call for an outgoing id, or a Release call for an
\* incoming id, re-submitted by a witness index that already successfully
\* submitted one for that id returns AlreadySubmittedSignature and leaves the
\* state untouched.
C11_Original ==
    /\ \A u \in Users, body \in WitnessBodies :
          Witnessed(u, body.id) =>
              /\ WitnessCall(u, body, FALSE).result = AlreadySubmittedSignature
              /\ WitnessCall(u, body, FALSE).st = Cur
    /\ \A u \in Users, body \in ReleaseBodies :
          Attested(u, body.id) =>
              /\ ReleaseCall(u, body, FALSE).result = AlreadySubmittedSignature
              /\ ReleaseCall(u, body, FALSE).st = Cur

\* C11 amended: an executed re-submission leaves the state untouched and returns
\* AlreadySubmittedSignature while the slot of the id is still open; once the slot
\* is finalized it returns InvalidSequenceNumber, and a Release re-submitted with
\* an unsupported denomination returns UnsupportedDenomination.
C11_IdempotentParticipation ==
    /\ \A u \in Users, body \in WitnessBodies :
          Witnessed(u, body.id) =>
              /\ WitnessCall(u, body, FALSE).result =
                    (IF StoreHas(OUT_WITNESS_SIGNATURES, body.id)
                     THEN AlreadySubmittedSignature ELSE InvalidSequenceNumber)
              /\ WitnessCall(u, body, FALSE).st = Cur
    /\ \A u \in Users, body \in ReleaseBodies :
          Attested(u, body.id) =>
              /\ ReleaseCall(u, body, FALSE).result =
                    (IF ~Supported(body.amount.denomination) THEN UnsupportedDenomination
                     ELSE IF body.id = Expected THEN AlreadySubmittedSignature
                     ELSE InvalidSequenceNumber)
              /\ ReleaseCall(u, body, FALSE).st = Cur

\* One witness is recorded on the open outgoing slot 0 and on the open incoming
\* slot 0, and is refused on both.
C11_Witness ==
    \E u \in Users, rb \in ReleaseBodies :
        /\ Witnessed(u, 0) /\ StoreHas(OUT_WITNESS_SIGNATURES, 0)
        /\ Attested(u, 0) /\ rb.id = 0 /\ Expected = 0
        /\ attested = {[index |-> FindWitness(params, u), op |-> OperationRelease(rb)]}
        /\ WitnessCall(u, [id |-> 0, signature |-> "sigB"], FALSE).result
              = AlreadySubmittedSignature
        /\ ReleaseCall(u, rb, FALSE).result = AlreadySubmittedSignature

(* ------------------------------------------------------------------ *)
(* C12                                                                  *)
(* ------------------------------------------------------------------ *)
\* Every allocated outgoing id has either an open slot with fewer than `threshold`
\* witness indices and no WitnessesSigned event, or no slot and exactly one
\* WitnessesSigned event; an id not yet allocated has neither.
SlotLifecycle ==
    \A n \in 0..MaxId :
        IF n < GetOrDefault(NEXT_OUT_SEQUENCE)
        THEN \/ /\ StoreHas(OUT_WITNESS_SIGNATURES, n)
                /\ Len(OUT_WITNESS_SIGNATURES[n].witnesses) <= params.threshold - 1
                /\ signed[n] = 0
             \/ /\ ~StoreHas(OUT_WITNESS_SIGNATURES, n)
                /\ signed[n] = 1
        ELSE ~StoreHas(OUT_WITNESS_SIGNATURES, n) /\ signed[n] = 0

\* C12 (P4/I3): every allocated outgoing id satisfies the slot lifecycle before and
\* after every step; the witness list of an open slot only grows, by one index per
\* step; a slot is created empty by the Lock that allocates its id; a slot is
\* deleted by the call that adds the threshold-th index, and that call emits the
\* one WitnessesSigned event of the id.
C12_OutgoingSlotLifecycle ==
    [][ /\ SlotLifecycle /\ SlotLifecycle'
        /\ \A n \in 0..MaxId :
              /\ (StoreHas(OUT_WITNESS_SIGNATURES, n) /\ StoreHas(OUT_WITNESS_SIGNATURES', n)) =>
                    \/ OUT_WITNESS_SIGNATURES'[n] = OUT_WITNESS_SIGNATURES[n]
                    \/ /\ Len(OUT_WITNESS_SIGNATURES'[n].witnesses)
                             = Len(OUT_WITNESS_SIGNATURES[n].witnesses) + 1
                       /\ SubSeq(OUT_WITNESS_SIGNATURES'[n].witnesses, 1,
                                 Len(OUT_WITNESS_SIGNATURES[n].witnesses))
                             = OUT_WITNESS_SIGNATURES[n].witnesses
                       /\ events' = <<>>
              /\ (~StoreHas(OUT_WITNESS_SIGNATURES, n) /\ StoreHas(OUT_WITNESS_SIGNATURES', n)) =>
                    /\ n = GetOrDefault(NEXT_OUT_SEQUENCE)
                    /\ OUT_WITNESS_SIGNATURES'[n].witnesses = <<>>
                    /\ Len(events') = 1 /\ events'[1].type = "Lock" /\ events'[1].id = n
              /\ (StoreHas(OUT_WITNESS_SIGNATURES, n) /\ ~StoreHas(OUT_WITNESS_SIGNATURES', n)) =>
                    /\ Len(OUT_WITNESS_SIGNATURES[n].witnesses) = params.threshold - 1
                    /\ Len(events') = 1 /\ events'[1].type = "WitnessesSigned"
                    /\ events'[1].info.id = n
                    /\ Len(events'[1].info.witnesses) = params.threshold
                    /\ signed'[n] = signed[n] + 1
              /\ signed'[n] # signed[n] =>
                    StoreHas(OUT_WITNESS_SIGNATURES, n) /\ ~StoreHas(OUT_WITNESS_SIGNATURES', n) ]_vars

\* Id 0 was signed by two witnesses and its slot deleted; the slot of id 1 is open
\* with one index.
C12_Witness ==
    /\ params.threshold = 2
    /\ GetOrDefault(NEXT_OUT_SEQUENCE) = 2
    /\ ~StoreHas(OUT_WITNESS_SIGNATURES, 0) /\ signed[0] = 1
    /\ StoreHas(OUT_WITNESS_SIGNATURES, 1)
    /\ Len(OUT_WITNESS_SIGNATURES[1].witnesses) = 1

(* ------------------------------------------------------------------ *)
(* C13                                                                  *)
(* ------------------------------------------------------------------ *)
\* C13 (I6): a successful Lock returns the value of NEXT_OUT_SEQUENCE before the
\* call, reports it in its event and leaves NEXT_OUT_SEQUENCE = id + 1; no Witness
\* and no Release call, and no failed or check-only Lock, changes
\* NEXT_OUT_SEQUENCE; hence every change of the counter is a step from id to
\* id + 1 made by the Lock that emits the Lock event of id.
C13_OutgoingSequence ==
    [][ /\ \A caller \in LockCallers, body \in LockBodies :
              \E out \in {LockCall(caller, body, FALSE)} :
                  IF out.result = Ok
                  THEN /\ out.id = GetOrDefault(NEXT_OUT_SEQUENCE)
                       /\ out.st.next_out = <<out.id + 1>>
                       /\ out.st.events[1].id = out.id
                  ELSE Committed(Cur, out, FALSE).next_out = NEXT_OUT_SEQUENCE
        /\ \A caller \in LockCallers, body \in LockBodies :
              Committed(Cur, LockCall(caller, body, TRUE), TRUE).next_out = NEXT_OUT_SEQUENCE
        /\ \A caller \in Users, body \in WitnessBodies, check \in BOOLEAN :
              WitnessCall(caller, body, check).st.next_out = NEXT_OUT_SEQUENCE
        /\ \A caller \in Users, body \in ReleaseBodies, check \in BOOLEAN :
              ReleaseCall(caller, body, check).st.next_out = NEXT_OUT_SEQUENCE
        /\ NEXT_OUT_SEQUENCE' # NEXT_OUT_SEQUENCE =>
              /\ NEXT_OUT_SEQUENCE' = <<GetOrDefault(NEXT_OUT_SEQUENCE) + 1>>
              /\ Len(events') = 1 /\ events'[1].type = "Lock"
              /\ events'[1].id = GetOrDefault(NEXT_OUT_SEQUENCE)
              /\ StoreHas(OUT_WITNESS_SIGNATURES', GetOrDefault(NEXT_OUT_SEQUENCE))
              /\ OUT_WITNESS_SIGNATURES'[GetOrDefault(NEXT_OUT_SEQUENCE)].id
                    = GetOrDefault(NEXT_OUT_SEQUENCE) ]_vars

\* Two Locks succeeded: the second returned id 1 and the counter is 2.
C13_Witness ==
    /\ NEXT_OUT_SEQUENCE = <<2>>
    /\ HasEvent(events, "Lock") /\ events[1].id = 1
    /\ locked["NATIVE"] + locked["oETH"] = 2

(* ------------------------------------------------------------------ *)
(* C14                                                                  *)
(* ------------------------------------------------------------------ *)
\* A sequence without repeated elements.
NoDuplicates(seq) == \A i, j \in 1..Len(seq) : seq[i] = seq[j] => i = j

\* C14 (I4): in every persisted incoming slot the slot-level witness list and every
\* bucket's witness list are duplicate-free, the buckets' witness lists are
\* pairwise disjoint, and the slot-level witness set is the union of the buckets'
\* witness sets.
C14_IncomingSlotConsistency ==
    \A n \in DOMAIN IN_WITNESS_SIGNATURES :
        \E info \in {IN_WITNESS_SIGNATURES[n]} :
            /\ NoDuplicates(info.witnesses)
            /\ \A k \in DOMAIN info.ops : NoDuplicates(info.ops[k].witnesses)
            /\ \A k1, k2 \in DOMAIN info.ops :
                  k1 # k2 => SeqToSet(info.ops[k1].witnesses)
                               \cap SeqToSet(info.ops[k2].witnesses) = {}
            /\ SeqToSet(info.witnesses)
                  = UNION {SeqToSet(info.ops[k].witnesses) : k \in DOMAIN info.ops}

\* A slot with two buckets of one witness each, after an earlier id was finalized.
C14_Witness ==
    /\ Expected = 1
    /\ StoreHas(IN_WITNESS_SIGNATURES, 1)
    /\ Cardinality(DOMAIN IN_WITNESS_SIGNATURES[1].ops) = 2
    /\ Len(IN_WITNESS_SIGNATURES[1].witnesses) = 2

(* ------------------------------------------------------------------ *)
(* C15                                                                  *)
(* ------------------------------------------------------------------ *)
\* The handler of a finalizing Release(body) failed after it had removed the slot
\* and incremented the counter.
FailedLate(out, body) ==
    /\ out.result = InsufficientBalance
    /\ out.st.next_in = <<Expected + 1>>
    /\ ~StoreHas(out.st.in_sigs, body.id)
    /\ out.st.events = <<>>

\* C15 (atomicity): after a Lock, Witness or Release call that returns an error the
\* committed counters, slots, balances and events are those before the call. A
\* failing Lock or Witness handler has not mutated its view; a failing Release
\* handler has mutated it only in the finalizing call whose custody transfer
\* fails, after slot removal and counter increment, and those mutations are
\* discarded with the transaction.
C15_Atomicity ==
    /\ \A caller \in LockCallers, body \in LockBodies, check \in BOOLEAN :
          \E out \in {LockCall(caller, body, check)} :
              out.result # Ok =>
                  /\ Committed(Cur, out, check) = Cur
                  /\ Emitted(out, check) = <<>>
                  /\ out.st = Cur
    /\ \A caller \in Users, body \in WitnessBodies, check \in BOOLEAN :
          \E out \in {WitnessCall(caller, body, check)} :
              out.result # Ok =>
                  /\ Committed(Cur, out, check) = Cur
                  /\ Emitted(out, check) = <<>>
                  /\ out.st = Cur
    /\ \A caller \in Users, body \in ReleaseBodies, check \in BOOLEAN :
          \E out \in {ReleaseCall(caller, body, check)} :
              out.result # Ok =>
                  /\ Committed(Cur, out, check) = Cur
                  /\ Emitted(out, check) = <<>>
                  /\ out.st # Cur => FailedLate(out, body)

\* A finalizing Release of a local denomination that custody does not cover: the
\* handler fails after removing the open slot and incrementing the counter, and
\* the committed state keeps the slot and the counter.
C15_Witness ==
    \E caller \in Users, body \in ReleaseBodies :
        \E out \in {ReleaseCall(caller, body, FALSE)} :
            /\ FailedLate(out, body)
            /\ StoreHas(IN_WITNESS_SIGNATURES, body.id)
            /\ Committed(Cur, out, FALSE).in_sigs = IN_WITNESS_SIGNATURES
            /\ Committed(Cur, out, FALSE).next_in = NEXT_IN_SEQUENCE
            /\ Committed(Cur, out, FALSE).balances = balances

(* ------------------------------------------------------------------ *)
(* C16                                                                  *)
(* ------------------------------------------------------------------ *)
\* C16: a Lock, Witness or Release handler invoked in check-only mode leaves its
\* view of the state (counters, slots, balances) as it found it and emits no
\* event, so nothing is committed; a check-only Lock with a supported denomination
\* returns success with the placeholder id 0 whatever NEXT_OUT_SEQUENCE is.
C16_CheckOnlyNoEffect ==
    /\ \A caller \in LockCallers, body \in LockBodies :
          \E out \in {LockCall(caller, body, TRUE)} :
              /\ out.st = Cur
              /\ Committed(Cur, out, TRUE) = Cur /\ Emitted(out, TRUE) = <<>>
              /\ Supported(body.amount.denomination) => out.result = Ok /\ out.id = 0
    /\ \A caller \in Users, body \in WitnessBodies :
          \E out \in {WitnessCall(caller, body, TRUE)} :
              /\ out.st = Cur
              /\ Committed(Cur, out, TRUE) = Cur /\ Emitted(out, TRUE) = <<>>
    /\ \A caller \in Users, body \in ReleaseBodies :
          \E out \in {ReleaseCall(caller, body, TRUE)} :
              /\ out.st = Cur
              /\ Committed(Cur, out, TRUE) = Cur /\ Emitted(out, TRUE) = <<>>

\* NEXT_OUT_SEQUENCE is 1, slot 0 is open: a Lock that returns id 1 when executed
\* returns id 0 when checked, and a Witness that would sign slot 0 when executed
\* changes nothing when checked.
C16_Witness ==
    /\ NEXT_OUT_SEQUENCE = <<1>>
    /\ StoreHas(OUT_WITNESS_SIGNATURES, 0)
    /\ \E caller \in LockCallers, body \in LockBodies :
          /\ LockCall(caller, body, FALSE).result = Ok
          /\ LockCall(caller, body, FALSE).id = 1
          /\ LockCall(caller, body, TRUE).result = Ok
          /\ LockCall(caller, body, TRUE).id = 0
    /\ \E caller \in Users, body \in WitnessBodies :
          /\ WitnessCall(caller, body, FALSE).st # Cur
          /\ WitnessCall(caller, body, TRUE).st = Cur

(* ------------------------------------------------------------------ *)
(* C17                                                                  *)
(* ------------------------------------------------------------------ *)
\* C17 as stated: a Witness or Release invoked in check-only mode by a caller that
\* is not in the witness list is rejected with NotAuthorized and has no side
\* effects.
C17_Original ==
    \A u \in Users :
        ~IsWitness(u) =>
            /\ \A body \in WitnessBodies :
                  /\ WitnessCall(u, body, TRUE).result = NotAuthorized
                  /\ WitnessCall(u, body, TRUE).st = Cur
            /\ \A body \in ReleaseBodies :
                  /\ ReleaseCall(u, body, TRUE).result = NotAuthorized
                  /\ ReleaseCall(u, body, TRUE).st = Cur

\* C17 amended: check-only mode does not validate authority. For a caller that is
\* not in the witness list a check-only Witness returns success, and a check-only
\* Release returns success when its denomination is supported and
\* UnsupportedDenomination otherwise, both without side effects; the same calls
\* in execute mode are rejected with NotAuthorized (UnsupportedDenomination for a
\* Release of an unsupported denomination).
C17_CheckOnlySkipsAuthority ==
    \A u \in Users :
        ~IsWitness(u) =>
            /\ \A body \in WitnessBodies :
                  /\ WitnessCall(u, body, TRUE).result = Ok
                  /\ WitnessCall(u, body, TRUE).st = Cur
                  /\ WitnessCall(u, body, FALSE).result = NotAuthorized
            /\ \A body \in ReleaseBodies :
                  /\ ReleaseCall(u, body, TRUE).result =
                        (IF Supported(body.amount.denomination) THEN Ok
                         ELSE UnsupportedDenomination)
                  /\ ReleaseCall(u, body, TRUE).st = Cur
                  /\ ReleaseCall(u, body, FALSE).result =
                        (IF Supported(body.amount.denomination) THEN NotAuthorized
                         ELSE UnsupportedDenomination)

\* An outgoing and an incoming slot are open and a user outside the witness list
\* names them: accepted when checked, refused when executed.
C17_Witness ==
    \E u \in Users, rb \in ReleaseBodies :
        /\ ~IsWitness(u)
        /\ StoreHas(OUT_WITNESS_SIGNATURES, 0)
        /\ StoreHas(IN_WITNESS_SIGNATURES, 0)
        /\ rb.id = 0
        /\ StoreHas(IN_WITNESS_SIGNATURES[0].ops, OperationIdFrom(OperationRelease(rb)))
        /\ WitnessCall(u, [id |-> 0, signature |-> "sigA"], TRUE).result = Ok
        /\ WitnessCall(u, [id |-> 0, signature |-> "sigA"], FALSE).result = NotAuthorized
        /\ ReleaseCall(u, rb, TRUE).result = Ok
        /\ ReleaseCall(u, rb, FALSE).result = NotAuthorized

(* ------------------------------------------------------------------ *)
(* C18                                                                  *)
(* ------------------------------------------------------------------ *)
\* C18: in execute mode a Witness call, and a Release call with a supported
\* denomination, by a caller that matches no key of Parameters.witnesses fails
\* with NotAuthorized and leaves slots, counters and balances as they were,
\* whatever id it names; every recorded attestation carries the index of a key of
\* the witness list.
C18_Authorization ==
    /\ \A u \in Users :
          ~IsWitness(u) =>
              /\ \A body \in WitnessBodies :
                    /\ WitnessCall(u, body, FALSE).result = NotAuthorized
                    /\ WitnessCall(u, body, FALSE).st = Cur
              /\ \A body \in ReleaseBodies :
                    Supported(body.amount.denomination) =>
                        /\ ReleaseCall(u, body, FALSE).result = NotAuthorized
                        /\ ReleaseCall(u, body, FALSE).st = Cur
    /\ \A a \in witnessed \cup attested : a.index \in 0..(Len(params.witnesses) - 1)
    /\ \A n \in DOMAIN OUT_WITNESS_SIGNATURES :
          SeqToSet(OUT_WITNESS_SIGNATURES[n].witnesses) \subseteq 0..(Len(params.witnesses) - 1)
    /\ \A n \in DOMAIN IN_WITNESS_SIGNATURES :
          SeqToSet(IN_WITNESS_SIGNATURES[n].witnesses) \subseteq 0..(Len(params.witnesses) - 1)

\* A user outside the witness list is refused for the id of an open outgoing slot
\* that lacks one signature, for an id without a slot, and for the expected
\* incoming id whose bucket lacks one attestation.
C18_Witness ==
    \E u \in Users, rb \in ReleaseBodies :
        /\ ~IsWitness(u)
        /\ StoreHas(OUT_WITNESS_SIGNATURES, 0)
        /\ Len(OUT_WITNESS_SIGNATURES[0].witnesses) = params.threshold - 1
        /\ rb.id = Expected /\ Supported(rb.amount.denomination)
        /\ StoreHas(IN_WITNESS_SIGNATURES, rb.id)
        /\ StoreHas(IN_WITNESS_SIGNATURES[rb.id].ops, OperationIdFrom(OperationRelease(rb)))
        /\ \A n \in 0..MaxId :
              WitnessCall(u, [id |-> n, signature |-> "sigB"], FALSE).result = NotAuthorized
        /\ \A n \in 0..MaxId :
              ReleaseCall(u, [rb EXCEPT !.id = n], FALSE).result = NotAuthorized

(* ------------------------------------------------------------------ *)
(* C19                                                                  *)
(* ------------------------------------------------------------------ *)
\* C19: an executed Witness call by a witness for an outgoing id without a
\* persisted slot (never allocated, or finalized and deleted) fails with
\* InvalidSequenceNumber and changes nothing; no outgoing id ever gets a second
\* WitnessesSigned event.
C19_WitnessNoSlot ==
    /\ \A u \in Users, body \in WitnessBodies :
          (IsWitness(u) /\ ~StoreHas(OUT_WITNESS_SIGNATURES, body.id)) =>
              /\ WitnessCall(u, body, FALSE).result = InvalidSequenceNumber
              /\ WitnessCall(u, body, FALSE).st = Cur
    /\ \A n \in 0..MaxId : signed[n] <= 1

\* Id 0 is finalized, id 1 open, id 2 not allocated: a witness that did not sign
\* id 0 is refused for id 0 and for id 2.
C19_Witness ==
    \E u \in Users :
        /\ IsWitness(u) /\ ~Witnessed(u, 0)
        /\ NEXT_OUT_SEQUENCE = <<2>>
        /\ signed[0] = 1 /\ ~StoreHas(OUT_WITNESS_SIGNATURES, 0)
        /\ StoreHas(OUT_WITNESS_SIGNATURES, 1)
        /\ WitnessCall(u, [id |-> 0, signature |-> "sigA"], FALSE).result
              = InvalidSequenceNumber
        /\ WitnessCall(u, [id |-> 2, signature |-> "sigA"], FALSE).result
              = InvalidSequenceNumber

(* ------------------------------------------------------------------ *)
(* C20                                                                  *)
(* ------------------------------------------------------------------ *)
\* Lock bodies with quantities up to one more than any balance of the model.
LargeLockBodies ==
    [target : RemoteAddresses,
     amount : [quantity : 1..(InitBalanceOutgoing + 1), denomination : Denominations]]

\* C20: an executed Lock of a supported denomination by a caller whose balance is
\* less than the amount returns InsufficientBalance and leaves NEXT_OUT_SEQUENCE,
\* the outgoing slots, every balance and the events as they were.
C20_LockInsufficientBalance ==
    \A caller \in LockCallers, body \in LargeLockBodies :
        (/\ Supported(body.amount.denomination)
         /\ balances[caller][body.amount.denomination] < body.amount.quantity) =>
            \E out \in {LockCall(caller, body, FALSE)} :
                /\ out.result = InsufficientBalance
                /\ out.st.next_out = NEXT_OUT_SEQUENCE
                /\ out.st.out_sigs = OUT_WITNESS_SIGNATURES
                /\ out.st.balances = balances
                /\ out.st.events = <<>>
                /\ out.st = Cur

\* After one Lock the caller holds 1 of the native denomination: a Lock of 2 is
\* refused where a Lock of 1 is accepted with id 1.
C20_Witness ==
    \E caller \in LockCallers, body \in LargeLockBodies :
        /\ NEXT_OUT_SEQUENCE = <<1>>
        /\ body.amount.denomination = "NATIVE" /\ body.amount.quantity = 2
        /\ balances[caller]["NATIVE"] = 1
        /\ LockCall(caller, body, FALSE).result = InsufficientBalance
        /\ LockCall(caller, [body EXCEPT !.amount.quantity = 1], FALSE).result = Ok
        /\ LockCall(caller, [body EXCEPT !.amount.quantity = 1], FALSE).id = 1

(* ------------------------------------------------------------------ *)
(* C21                                                                  *)
(* ------------------------------------------------------------------ *)
\* C21: an executed Lock of amount A of a local denomination d that succeeds
\* takes exactly A of d from the caller, adds exactly A of d to custody, changes no
\* other balance, and persists for the returned id a slot holding that id, the
\* operation Lock(target, A of d) and empty witness and signature lists, leaving
\* the other slots as they were.
C21_LockLocal ==
    \A caller \in LockCallers, body \in LargeLockBodies :
        \E out \in {LockCall(caller, body, FALSE)} :
            (/\ body.amount.denomination \in params.local_denominations
             /\ out.result = Ok) =>
                /\ out.st.balances =
                      [balances EXCEPT
                          ![caller][body.amount.denomination] = @ - body.amount.quantity,
                          ![ADDRESS_LOCKED_FUNDS][body.amount.denomination] =
                              @ + body.amount.quantity]
                /\ ~StoreHas(OUT_WITNESS_SIGNATURES, out.id)
                /\ DOMAIN out.st.out_sigs = DOMAIN OUT_WITNESS_SIGNATURES \cup {out.id}
                /\ \A n \in DOMAIN OUT_WITNESS_SIGNATURES :
                      out.st.out_sigs[n] = OUT_WITNESS_SIGNATURES[n]
                /\ out.st.out_sigs[out.id] =
                      [id |-> out.id,
                       op |-> [kind |-> "lock",
                               body |-> [target |-> body.target, amount |-> body.amount]],
                       witnesses |-> <<>>, signatures |-> <<>>]

\* Two Locks of the native denomination were committed: the caller's funds are in
\* custody and both slots are open and empty; before the second, a Lock of 1 was
\* possible.
C21_Witness ==
    /\ NEXT_OUT_SEQUENCE = <<2>>
    /\ locked["NATIVE"] = 2
    /\ Custody("NATIVE") = 2
    /\ balances["alice"]["NATIVE"] = InitBalanceOutgoing - 2
    /\ DOMAIN OUT_WITNESS_SIGNATURES = {0, 1}
    /\ OUT_WITNESS_SIGNATURES[1].witnesses = <<>>
    /\ OUT_WITNESS_SIGNATURES[1].signatures = <<>>
    /\ OUT_WITNESS_SIGNATURES[1].op.kind = "lock"

(* ------------------------------------------------------------------ *)
(* C22                                                                  *)
(* ------------------------------------------------------------------ *)
\* The witness list of the bucket of operation op on slot info (empty when the
\* bucket does not exist).
BucketWitnesses(info, op) ==
    IF StoreHas(info.ops, OperationIdFrom(op))
    THEN info.ops[OperationIdFrom(op)].witnesses ELSE <<>>

\* The incoming slot of id n (the empty slot when none is persisted).
SlotOf(sigs, n) ==
    IF StoreHas(sigs, n) THEN sigs[n] ELSE [ops |-> <<>>, witnesses |-> <<>>]

\* C22: an executed Release that succeeds while fewer than `threshold` witnesses
\* (the caller included) have attested its operation changes no balance, neither
\* counter and no outgoing slot and emits no event; it appends the caller's index
\* to the witness list of the incoming slot and to the witness list of the bucket
\* of the attested operation, and leaves the other buckets and slots alone.
C22_NonFinalRelease ==
    \A u \in Users, body \in ReleaseBodies :
        \E out \in {ReleaseCall(u, body, FALSE)} :
            (/\ out.result = Ok
             /\ Cardinality({a \in WithCall(u, body) : a.op = OperationRelease(body)})
                   < params.threshold) =>
                /\ out.st.balances = balances
                /\ out.st.next_in = NEXT_IN_SEQUENCE
                /\ out.st.next_out = NEXT_OUT_SEQUENCE
                /\ out.st.out_sigs = OUT_WITNESS_SIGNATURES
                /\ out.st.events = <<>>
                /\ DOMAIN out.st.in_sigs = DOMAIN IN_WITNESS_SIGNATURES \cup {body.id}
                /\ \A n \in DOMAIN IN_WITNESS_SIGNATURES :
                      n # body.id => out.st.in_sigs[n] = IN_WITNESS_SIGNATURES[n]
                /\ \E old \in {SlotOf(IN_WITNESS_SIGNATURES, body.id)},
                      new \in {out.st.in_sigs[body.id]} :
                      /\ new.witnesses = Append(old.witnesses, FindWitness(params, u))
                      /\ DOMAIN new.ops = DOMAIN old.ops
                                             \cup {OperationIdFrom(OperationRelease(body))}
                      /\ \A k \in DOMAIN old.ops :
                            k # OperationIdFrom(OperationRelease(body)) =>
                                new.ops[k] = old.ops[k]
                      /\ new.ops[OperationIdFrom(OperationRelease(body))] =
                            [id |-> body.id, op |-> OperationRelease(body),
                             witnesses |-> Append(BucketWitnesses(old, OperationRelease(body)),
                                                  FindWitness(params, u)),
                             signatures |-> <<>>]

\* With threshold 2 one witness is on the slot of the expected id: a second
\* witness attesting another operation opens a second bucket and moves no funds,
\* where attesting the same operation would pay the target.
C22_Witness ==
    \E u \in Users, body \in ReleaseBodies, other \in ReleaseBodies :
        /\ params.threshold = 2
        /\ body.id = Expected /\ other.id = Expected /\ other # body
        /\ StoreHas(IN_WITNESS_SIGNATURES, Expected)
        /\ Len(BucketWitnesses(IN_WITNESS_SIGNATURES[Expected], OperationRelease(other))) = 1
        /\ ReleaseCall(u, body, FALSE).result = Ok
        /\ ReleaseCall(u, body, FALSE).st.balances = balances
        /\ Cardinality(DOMAIN ReleaseCall(u, body, FALSE).st.in_sigs[Expected].ops) = 2
        /\ ReleaseCall(u, other, FALSE).result = Ok
        /\ ReleaseCall(u, other, FALSE).st.balances # balances

(* ------------------------------------------------------------------ *)
(* C23                                                                  *)
(* ------------------------------------------------------------------ *)
\* C23: the executed Release that succeeds as the threshold-th attestation of an
\* operation of a remote denomination d with amount A raises the target's balance
\* in d by exactly A, leaves the custody balance in d at 0 and every other balance
\* unchanged, deletes the incoming slot of the id, sets NEXT_IN_SEQUENCE to id + 1
\* and emits exactly the event Release{id, target, amount}.
C23_FinalReleaseRemote ==
    \A u \in Users, body \in ReleaseBodies :
        \E out \in {ReleaseCall(u, body, FALSE)} :
            (/\ out.result = Ok
             /\ body.amount.denomination \in DOMAIN params.remote_denominations
             /\ Cardinality({a \in WithCall(u, body) : a.op = OperationRelease(body)})
                   = params.threshold) =>
                /\ out.st.balances[body.target][body.amount.denomination] =
                      balances[body.target][body.amount.denomination] + body.amount.quantity
                /\ out.st.balances[ADDRESS_LOCKED_FUNDS][body.amount.denomination] = 0
                /\ \A a \in Addresses, d \in Denominations :
                      (a # ADDRESS_LOCKED_FUNDS
                         /\ ~(a = body.target /\ d = body.amount.denomination)) =>
                          out.st.balances[a][d] = balances[a][d]
                /\ \A d \in Denominations :
                      d # body.amount.denomination =>
                          out.st.balances[ADDRESS_LOCKED_FUNDS][d] = Custody(d)
                /\ ~StoreHas(out.st.in_sigs, body.id)
                /\ out.st.next_in = <<body.id + 1>>
                /\ out.st.events = <<[type |-> "Release", id |-> body.id,
                                      target |-> body.target, amount |-> body.amount]>>

(* ------------------------------------------------------------------ *)
(* C24                                                                  *)
(* ------------------------------------------------------------------ *)
\* C24: a Lock or Release of a denomination that is neither local nor remote fails
\* with UnsupportedDenomination and changes nothing, in both modes, for every
\* caller (witness or not), id and amount; an executed Lock that succeeds lowers
\* the total of its denomination by its amount exactly when the denomination is
\* remote (burn), and an executed Release that succeeds and emits its event
\* raises the total by its amount exactly when the denomination is remote (mint).
C24_Classification ==
    /\ \A caller \in LockCallers, body \in LargeLockBodies, check \in BOOLEAN :
          \E out \in {LockCall(caller, body, check)} :
              /\ ~Supported(body.amount.denomination) =>
                    out.result = UnsupportedDenomination /\ out.st = Cur
              /\ (out.result = Ok /\ ~check) =>
                    Total(out.st.balances, body.amount.denomination) =
                        Total(balances, body.amount.denomination)
                          - (IF body.amount.denomination \in DOMAIN params.remote_denominations
                             THEN body.amount.quantity ELSE 0)
    /\ \A caller \in Users, body \in ReleaseBodies, check \in BOOLEAN :
          \E out \in {ReleaseCall(caller, body, check)} :
              /\ ~Supported(body.amount.denomination) =>
                    out.result = UnsupportedDenomination /\ out.st = Cur
              /\ (out.result = Ok /\ HasEvent(out.st.events, "Release")) =>
                    Total(out.st.balances, body.amount.denomination) =
                        Total(balances, body.amount.denomination)
                          + (IF body.amount.denomination \in DOMAIN params.remote_denominations
                             THEN body.amount.quantity ELSE 0)

\* A user outside the witness list holds a released remote amount: its Lock of
\* that amount burns it, its Lock of an unsupported denomination and its Release
\* of one, for a wrong id, are refused as unsupported in both modes.
C24_Witness ==
    \E caller \in LockCallers, body \in LockBodies, rb \in ReleaseBodies :
        /\ ~IsWitness(caller)
        /\ body.amount.denomination \in DOMAIN params.remote_denominations
        /\ LockCall(caller, body, FALSE).result = Ok
        /\ Total(LockCall(caller, body, FALSE).st.balances, body.amount.denomination)
              = Total(balances, body.amount.denomination) - body.amount.quantity
        /\ LockCall(caller, [body EXCEPT !.amount.denomination = "BAD"], TRUE).result
              = UnsupportedDenomination
        /\ rb.amount.denomination = "BAD" /\ rb.id # Expected
        /\ ReleaseCall(caller, rb, TRUE).result = UnsupportedDenomination
        /\ ReleaseCall(caller, rb, FALSE).result = UnsupportedDenomination

(* ------------------------------------------------------------------ *)
(* C25                                                                  *)
(* ------------------------------------------------------------------ *)
\* C25: a Lock handler emits an event exactly when it is executed and succeeds, and
\* then the one Lock event of the returned id; a Witness handler emits an event
\* exactly when it is executed, succeeds and adds the threshold-th index to the
\* slot, and then the one WitnessesSigned event of the id; a Release handler emits
\* an event exactly when it is executed, succeeds and is the threshold-th
\* attestation of its operation, and then the one Release event of the
\* operation; failing, check-only and non-final calls emit nothing.
C25_EventsOnTerminalTransitions ==
    /\ \A caller \in LockCallers, body \in LockBodies, check \in BOOLEAN :
          \E out \in {LockCall(caller, body, check)} :
              IF out.result = Ok /\ ~check
              THEN out.st.events = <<[type |-> "Lock", id |-> out.id, owner |-> caller,
                                     target |-> body.target, amount |-> body.amount]>>
              ELSE out.st.events = <<>>
    /\ \A caller \in Users, body \in WitnessBodies, check \in BOOLEAN :
          \E out \in {WitnessCall(caller, body, check)} :
              IF /\ out.result = Ok /\ ~check
                 /\ Cardinality({w \in witnessed : w.id = body.id}) + 1 = params.threshold
              THEN /\ Len(out.st.events) = 1
                   /\ out.st.events[1].type = "WitnessesSigned"
                   /\ out.st.events[1].info.id = body.id
              ELSE out.st.events = <<>>
    /\ \A caller \in Users, body \in ReleaseBodies, check \in BOOLEAN :
          \E out \in {ReleaseCall(caller, body, check)} :
              IF /\ out.result = Ok /\ ~check
                 /\ Cardinality({a \in WithCall(caller, body) :
                                    a.op = OperationRelease(body)}) = params.threshold
              THEN out.st.events = <<[type |-> "Release", id |-> body.id,
                                     target |-> body.target, amount |-> body.amount]>>
              ELSE out.st.events = <<>>

\* The three kinds of events were each emitted once: a Lock, a Release, and last
\* the WitnessesSigned of the Lock's id after two signatures.
C25_Witness ==
    /\ params.threshold = 2
    /\ HasEvent(events, "WitnessesSigned")
    /\ signed[0] = 1
    /\ locked["NATIVE"] + locked["oETH"] = 1
    /\ released["NATIVE"] + released["oETH"] = 1
    /\ Cardinality(witnessed) = 2

(* ------------------------------------------------------------------ *)
(* C26                                                                  *)
(* ------------------------------------------------------------------ *)
\* The indices whose Witness calls for outgoing id n were committed.
Signers(n) == {w.index : w \in {x \in witnessed : x.id = n}}

\* C26: every persisted outgoing slot holds a Lock operation, a duplicate-free
\* witness list made of the indices that signed its id, and a signature list of
\* the same length; an executed Witness that succeeds appends the caller's index
\* and the submitted signature at the same position and keeps the operation; when
\* the lists then have `threshold` entries they are emitted, with the slot's
\* operation, in the WitnessesSigned event, otherwise they are persisted; no Lock
\* or Release changes a persisted outgoing slot.
C26_WitnessesSignedContent ==
    /\ \A n \in DOMAIN OUT_WITNESS_SIGNATURES :
          \E info \in {OUT_WITNESS_SIGNATURES[n]} :
              /\ info.id = n /\ info.op.kind = "lock"
              /\ Len(info.witnesses) = Len(info.signatures)
              /\ NoDuplicates(info.witnesses)
              /\ SeqToSet(info.witnesses) = Signers(n)
    /\ HasEvent(events, "WitnessesSigned") =>
          \E info \in {events[1].info} :
              /\ info.op.kind = "lock"
              /\ Len(info.witnesses) = params.threshold
              /\ Len(info.signatures) = params.threshold
              /\ NoDuplicates(info.witnesses)
              /\ SeqToSet(info.witnesses) = Signers(info.id)
    /\ \A u \in Users, body \in WitnessBodies :
          \E out \in {WitnessCall(u, body, FALSE)} :
              out.result = Ok =>
                  \E old \in {OUT_WITNESS_SIGNATURES[body.id]} :
                  \E new \in {[id |-> body.id, op |-> old.op,
                                witnesses |-> Append(old.witnesses, FindWitness(params, u)),
                                signatures |-> Append(old.signatures, body.signature)]} :
                      IF Len(old.witnesses) + 1 < params.threshold
                      THEN /\ out.st.out_sigs =
                                [OUT_WITNESS_SIGNATURES EXCEPT ![body.id] = new]
                           /\ out.st.events = <<>>
                      ELSE /\ Len(old.witnesses) + 1 = params.threshold
                           /\ out.st.events = <<[type |-> "WitnessesSigned", info |-> new]>>
                           /\ DOMAIN out.st.out_sigs = DOMAIN OUT_WITNESS_SIGNATURES \ {body.id}
    /\ \A caller \in LockCallers, body \in LockBodies, n \in DOMAIN OUT_WITNESS_SIGNATURES :
          LockCall(caller, body, FALSE).st.out_sigs[n] = OUT_WITNESS_SIGNATURES[n]
    /\ \A caller \in Users, body \in ReleaseBodies :
          ReleaseCall(caller, body, FALSE).st.out_sigs = OUT_WITNESS_SIGNATURES

\* With threshold 2 the second index signed id 0 before the first did, with
\* different signatures: the event lists them in that order.
C26_Witness ==
    /\ HasEvent(events, "WitnessesSigned")
    /\ events[1].info.id = 0
    /\ events[1].info.witnesses = <<1, 0>>
    /\ events[1].info.signatures = <<"sigB", "sigA">>
    /\ events[1].info.op = OperationLock([target |-> "r0",
                                          amount |-> [quantity |-> 1, denomination |-> "oETH"]])

(* ------------------------------------------------------------------ *)
(* C27                                                                  *)
(* ------------------------------------------------------------------ *)
\* The parameters the module was initialised with.
Installed == genesis[1].parameters

Replied(kind) == reply # NoReply /\ reply[1].kind = kind

\* C27: once the module is initialised, whatever transactions, queries and further
\* init_or_migrate calls follow, the stored parameters are the ones installed at
\* genesis, and the Parameters query returns exactly their witnesses, threshold,
\* local_denominations and remote_denominations.
C27_ParametersImmutable ==
    version # 0 =>
        /\ genesis # NoGenesis
        /\ \E q \in {query_parameters(params)} :
              /\ q.witnesses = Installed.witnesses
              /\ q.threshold = Installed.threshold
              /\ q.local_denominations = Installed.local_denominations
              /\ q.remote_denominations = Installed.remote_denominations
        /\ Replied("Parameters") => reply[1].value = Installed

\* Lock, Witness and Release have all committed, and the query then ran on
\* parameters that are not the default ones.
C27_Witness ==
    /\ Replied("Parameters")
    /\ reply[1].value # ParametersDefault
    /\ NEXT_OUT_SEQUENCE # <<>>
    /\ witnessed # {}
    /\ attested # {}

(* ------------------------------------------------------------------ *)
(* C28                                                                  *)
(* ------------------------------------------------------------------ *)
\* The value persisted in a counter cell, 0 when the cell was never written.
Persisted(cell) == IF cell = <<>> THEN 0 ELSE cell[1]

\* C28: a step that ends with a NextSequenceNumbers reply leaves the whole module
\* state as it was, and the reply is {incoming: NEXT_IN_SEQUENCE, outgoing:
\* NEXT_OUT_SEQUENCE} as persisted, {0, 0} when neither cell was ever written; the
\* reply names the id the next Lock allocates and the only id a Release is
\* accepted for.
C28_NextSequenceNumbers ==
    [][ Replied("NextSequenceNumbers")' =>
          /\ UNCHANGED <<params, NEXT_OUT_SEQUENCE, NEXT_IN_SEQUENCE,
                         OUT_WITNESS_SIGNATURES, IN_WITNESS_SIGNATURES, balances,
                         events, version>>
          /\ reply'[1].value = [incoming |-> Persisted(NEXT_IN_SEQUENCE),
                                outgoing |-> Persisted(NEXT_OUT_SEQUENCE)]
          /\ (NEXT_IN_SEQUENCE = <<>> /\ NEXT_OUT_SEQUENCE = <<>>)
                => reply'[1].value = [incoming |-> 0, outgoing |-> 0]
          /\ \A u \in LockCallers, body \in LockBodies :
                \E out \in {LockCall(u, body, FALSE)} :
                    out.result = Ok =>
                        /\ out.id = reply'[1].value.outgoing
                        /\ ~StoreHas(OUT_WITNESS_SIGNATURES, out.id)
                        /\ StoreHas(out.st.out_sigs, out.id)
          /\ \A u \in Users, body \in ReleaseBodies :
                ReleaseCall(u, body, FALSE).result = Ok
                    => body.id = reply'[1].value.incoming
      ]_vars

\* Both counters have been written and differ from their defaults when the query
\* runs.
C28_Witness ==
    /\ Replied("NextSequenceNumbers")
    /\ reply[1].value.outgoing = 1
    /\ reply[1].value.incoming = 1
    /\ NEXT_OUT_SEQUENCE = <<1>>
    /\ NEXT_IN_SEQUENCE = <<1>>

(* ------------------------------------------------------------------ *)
(* C29                                                                  *)
(* ------------------------------------------------------------------ *)
\* A threshold that is positive and not greater than the number of witnesses.
ThresholdValid(p) == 1 <= p.threshold /\ p.threshold <= Len(p.witnesses)

\* C29: the parameters of an initialised module, when parameter validation accepts
\* them, have a threshold that is positive and not greater than the number of
\* witnesses.
C29_ThresholdValid ==
    (version # 0 /\ validate_basic(params) = Ok) => ThresholdValid(params)

(* ------------------------------------------------------------------ *)
(* C30                                                                  *)
(* ------------------------------------------------------------------ *)
\* C30 (lifecycle): with recorded version 0, init_or_migrate installs the genesis
\* parameters, records the module version (non-zero) and returns true, leaving
\* counters, slots, balances and events as they were; with a non-zero recorded
\* version it returns false and changes nothing, whatever genesis it is given, so
\* a further init_or_migrate on its result returns false again with the same
\* parameters; in every step taken by an initialised module the parameters and the
\* recorded version stay as they are.
C30_Lifecycle ==
    [][ /\ \A g \in CandidateGenesis :
              \E out \in {init_or_migrate(params, version, g)} :
                  /\ version = 0 =>
                        /\ out.params = g.parameters
                        /\ out.version = VERSION /\ out.version # 0
                        /\ out.result = TRUE
                  /\ version # 0 =>
                        /\ out.params = params
                        /\ out.version = version
                        /\ out.result = FALSE
                  /\ \A again \in CandidateGenesis :
                        \E second \in {init_or_migrate(out.params, out.version, again)} :
                            /\ second.params = out.params
                            /\ second.version = out.version
                            /\ second.result = FALSE
        /\ version # 0 =>
              /\ params' = params
              /\ version' = version
              /\ genesis' = genesis
        /\ version' # version =>
              /\ version = 0 /\ version' = VERSION
              /\ genesis' # NoGenesis
              /\ params' = genesis'[1].parameters
              /\ UNCHANGED <<NEXT_OUT_SEQUENCE, NEXT_IN_SEQUENCE, OUT_WITNESS_SIGNATURES,
                             IN_WITNESS_SIGNATURES, balances, events>>
      ]_vars

\* An initialised module with transactions committed, offered a genesis that
\* differs from the installed one: init_or_migrate returns false.
C30_Witness ==
    /\ version = VERSION
    /\ genesis # NoGenesis
    /\ params = Installed
    /\ params # ParametersDefault
    /\ NEXT_OUT_SEQUENCE # <<>>
    /\ \E g \in CandidateGenesis :
          /\ g.parameters # params
          /\ init_or_migrate(params, version, g).result = FALSE

(* ------------------------------------------------------------------ *)
(* C31                                                                  *)
(* ------------------------------------------------------------------ *)
\* The honest witnesses (witnesses of every genesis configuration, at least
\* `threshold` of them) submit Witness for every outgoing id, in any order; the
\* other users submit any Witness call, and Locks keep allocating ids.
HonestWitness(h, n) ==
    \E sig \in Signatures : Witness(h, [id |-> n, signature |-> sig], FALSE)

ByzantineWitness ==
    \E caller \in Users \ Honest, body \in WitnessBodies, check \in BOOLEAN :
        Witness(caller, body, check)

NextOutgoingProgress ==
    \/ \E h \in Honest, n \in 0..MaxId : HonestWitness(h, n)
    \/ ByzantineWitness
    \/ GetOrDefault(NEXT_OUT_SEQUENCE) < MaxOutOutgoing /\ SomeLock

\* Every honest witness keeps submitting for an id until its call is accepted.
SpecOutgoingProgress ==
    /\ InitOutgoing
    /\ [][NextOutgoingProgress]_vars
    /\ \A h \in Honest, n \in 0..MaxId : WF_vars(HonestWitness(h, n))

\* Outgoing id n was allocated and its slot is open.
OpenOutgoing(n) == StoreHas(OUT_WITNESS_SIGNATURES, n)

\* The WitnessesSigned event of id n was emitted and the slot is deleted.
SignedOutgoing(n) == ~StoreHas(OUT_WITNESS_SIGNATURES, n) /\ signed[n] = 1

\* C31 (outgoing liveness): every outgoing id allocated by a Lock, once `threshold`
\* distinct witnesses each submit Witness for it, has its WitnessesSigned event
\* emitted and its slot deleted, in whatever order the witnesses act and whatever
\* Lock and Witness calls are made on other ids.
C31_OutgoingLiveness ==
    \A n \in 0..MaxId : OpenOutgoing(n) ~> SignedOutgoing(n)

\* Id 1 is signed while the slot of id 0, allocated earlier, is still open.
C31_Witness ==
    /\ SignedOutgoing(1)
    /\ OpenOutgoing(0)
    /\ signed[0] = 0

(* ------------------------------------------------------------------ *)
(* C32                                                                  *)
(* ------------------------------------------------------------------ *)
\* Release(body) by u is a first attestation by witness u for the expected id that
\* brings the bucket of its operation to the threshold.
ReachesThreshold(u, body) ==
    /\ IsWitness(u)
    /\ body.id = Expected
    /\ \A a \in Pending(Expected) : a.index # FindWitness(params, u)
    /\ Cardinality({a \in WithCall(u, body) : a.op = OperationRelease(body)})
          >= params.threshold

\* C32: an executed Release of a local denomination d that brings its bucket to the
\* threshold while custody holds less than the amount in d returns
\* InsufficientBalance; the handler has changed no balance (nothing is credited,
\* nothing minted) and emitted nothing, and the committed state is the state before
\* the call, NEXT_IN_SEQUENCE and the open slot included. The custody balance in a
\* local denomination is never negative, in a committed state or in the view a
\* Release handler leaves.
C32_NoReleaseBeyondCustody ==
    /\ \A u \in Users, body \in ReleaseBodies :
          \E out \in {ReleaseCall(u, body, FALSE)} :
              /\ (/\ ReachesThreshold(u, body)
                  /\ body.amount.denomination \in params.local_denominations
                  /\ Custody(body.amount.denomination) < body.amount.quantity) =>
                    /\ out.result = InsufficientBalance
                    /\ out.st.balances = balances
                    /\ out.st.events = <<>>
                    /\ Emitted(out, FALSE) = <<>>
                    /\ Committed(Cur, out, FALSE) = Cur
                    /\ Committed(Cur, out, FALSE).next_in = NEXT_IN_SEQUENCE
              /\ \A d \in params.local_denominations :
                    out.st.balances[ADDRESS_LOCKED_FUNDS][d] >= 0
    /\ \A d \in params.local_denominations : Custody(d) >= 0

\* With threshold 2, one attestation of a Release of the native denomination is
\* pending, custody is empty, and the second attestation is refused.
C32_Witness ==
    /\ params.threshold = 2
    /\ Custody("NATIVE") = 0
    /\ \E u \in Users, body \in ReleaseBodies :
          /\ body.amount.denomination = "NATIVE"
          /\ body.target = "alice"
          /\ \E a \in Pending(Expected) : a.op = OperationRelease(body)
          /\ ReachesThreshold(u, body)
          /\ ReleaseCall(u, body, FALSE).result = InsufficientBalance

(* ------------------------------------------------------------------ *)
(* C33                                                                  *)
(* ------------------------------------------------------------------ *)
\* The incoming slot of the expected id n is open and records every witness index:
\* the witnesses split their votes and no bucket reached the threshold.
Stuck(n) ==
    /\ Expected = n
    /\ StoreHas(IN_WITNESS_SIGNATURES, n)
    /\ SeqToSet(IN_WITNESS_SIGNATURES[n].witnesses) = 0..(Len(params.witnesses) - 1)

\* The error an executed Release(body) by u meets first on a stuck slot of id n.
StuckError(u, body, n) ==
    IF ~Supported(body.amount.denomination) THEN UnsupportedDenomination
    ELSE IF ~IsWitness(u) THEN NotAuthorized
    ELSE IF body.id # n THEN InvalidSequenceNumber
    ELSE AlreadySubmittedSignature

\* The incoming state a call's committed outcome leaves is the current one.
IncomingKept(out, check) ==
    /\ Committed(Cur, out, check).next_in = NEXT_IN_SEQUENCE
    /\ Committed(Cur, out, check).in_sigs = IN_WITNESS_SIGNATURES

\* C33 as stated: on a stuck slot of id n every executed Release call by anyone
\* returns AlreadySubmittedSignature for id n and InvalidSequenceNumber for any
\* other id.
C33_Original ==
    \A n \in 0..MaxId :
        Stuck(n) =>
            \A u \in Users, body \in ReleaseBodies :
                ReleaseCall(u, body, FALSE).result
                    = IF body.id = n THEN AlreadySubmittedSignature
                      ELSE InvalidSequenceNumber

\* C33 amended: on a stuck slot of id n every executed Release call fails, with
\* UnsupportedDenomination for an unsupported denomination, else NotAuthorized for
\* a caller that is no witness, else InvalidSequenceNumber for an id other than n,
\* else AlreadySubmittedSignature; no Lock, Witness or Release call, executed or
\* checked, changes NEXT_IN_SEQUENCE or the slot, so the slot stays stuck and
\* NEXT_IN_SEQUENCE stays n.
C33_StuckSlot ==
    \A n \in 0..MaxId :
        Stuck(n) =>
            /\ \A u \in Users, body \in ReleaseBodies :
                  /\ ReleaseCall(u, body, FALSE).result = StuckError(u, body, n)
                  /\ \A check \in BOOLEAN :
                        IncomingKept(ReleaseCall(u, body, check), check)
            /\ \A u \in LockCallers, body \in LockBodies, check \in BOOLEAN :
                  IncomingKept(LockCall(u, body, check), check)
            /\ \A u \in Users, body \in WitnessBodies, check \in BOOLEAN :
                  IncomingKept(WitnessCall(u, body, check), check)

\* Three witnesses with threshold 2 attested three different operations for the
\* expected id.
C33_Witness ==
    /\ Len(params.witnesses) = 3
    /\ Stuck(Expected)
    /\ Cardinality(DOMAIN IN_WITNESS_SIGNATURES[Expected].ops) = 3

(* ------------------------------------------------------------------ *)
(* C34                                                                  *)
(* ------------------------------------------------------------------ *)
\* The handler outcome credits an address.
Credits(out) ==
    \E a \in Addresses, d \in Denominations : out.st.balances[a][d] > balances[a][d]

\* C34: every incoming id has at most one Release event, exactly one when it is
\* below NEXT_IN_SEQUENCE and none otherwise; an executed Release for a finalized
\* id does not succeed and changes no balance; an executed Release that credits an
\* address is for an id without a Release event, emits the one Release event of that
\* id and moves NEXT_IN_SEQUENCE past it.
C34_SingleFinalization ==
    \A n \in 0..MaxId :
        /\ finalized[n] <= 1
        /\ finalized[n] = (IF n < Expected THEN 1 ELSE 0)
        /\ \A u \in Users, body \in ReleaseBodies :
              body.id = n =>
                  \E out \in {ReleaseCall(u, body, FALSE)} :
                      /\ finalized[n] = 1 =>
                            /\ out.result # Ok
                            /\ out.st.balances = balances
                            /\ Emitted(out, FALSE) = <<>>
                      /\ (Commits(out, FALSE) /\ Credits(out)) =>
                            /\ finalized[n] = 0
                            /\ ReleasedCount(Emitted(out, FALSE), n) = 1
                            /\ Len(Emitted(out, FALSE)) = 1
                            /\ out.st.next_in = <<n + 1>>
                            /\ ~StoreHas(out.st.in_sigs, n)

\* Id 0 is finalized once although two different operations had been attested for
\* it, and a Release for id 0 is submitted again.
C34_Witness ==
    /\ finalized[0] = 1
    /\ Expected = 1
    /\ \E a \in attested, b \in attested :
          a.op.body.id = 0 /\ b.op.body.id = 0 /\ a.op # b.op
    /\ \E u \in Users, body \in ReleaseBodies :
          /\ IsWitness(u) /\ body.id = 0
          /\ ReleaseCall(u, body, FALSE).result = InvalidSequenceNumber

(* ------------------------------------------------------------------ *)
(* C35                                                                  *)
(* ------------------------------------------------------------------ *)
\* C35: in every committed state an incoming slot is persisted only under the key
\* NEXT_IN_SEQUENCE (so at most one, none for a finalized or a future id) and every
\* bucket on it carries that id and a Release operation for that id; outgoing
\* slots are persisted only under keys below NEXT_OUT_SEQUENCE and each carries
\* its key as id.
C35_SlotRanges ==
    /\ DOMAIN IN_WITNESS_SIGNATURES \subseteq {Expected}
    /\ Cardinality(DOMAIN IN_WITNESS_SIGNATURES) <= 1
    /\ \A n \in DOMAIN IN_WITNESS_SIGNATURES :
          \A k \in DOMAIN IN_WITNESS_SIGNATURES[n].ops :
              /\ IN_WITNESS_SIGNATURES[n].ops[k].id = n
              /\ IN_WITNESS_SIGNATURES[n].ops[k].op.body.id = n
    /\ \A n \in DOMAIN OUT_WITNESS_SIGNATURES :
          /\ n < GetOrDefault(NEXT_OUT_SEQUENCE)
          /\ OUT_WITNESS_SIGNATURES[n].id = n

\* Incoming id 0 is finalized and its slot gone, the slot of id 1 is open, and the
\* one outgoing slot is that of the allocated id 0.
C35_Witness ==
    /\ Expected = 1
    /\ DOMAIN IN_WITNESS_SIGNATURES = {1}
    /\ GetOrDefault(NEXT_OUT_SEQUENCE) = 1
    /\ DOMAIN OUT_WITNESS_SIGNATURES = {0}

(* ------------------------------------------------------------------ *)
(* C36                                                                  *)
(* ------------------------------------------------------------------ *)
\* Every outgoing slot of sigs that still exists in sigs2 has the id and the
\* operation it had.
OpsKept(sigs, sigs2) ==
    \A n \in DOMAIN sigs :
        StoreHas(sigs2, n) => sigs2[n].op = sigs[n].op /\ sigs2[n].id = sigs[n].id

\* C36 (frame of Witness): the outcome of a Witness call for outgoing id k, by any
\* caller, checked or executed, successful or not, has the balances, both sequence
\* counters and the incoming slots of the state before the call, and the same
\* outgoing slots except possibly slot k; slot k, when it remains, keeps its id and
\* its operation. The slot a Lock creates carries the Lock's target and amount as
\* submitted, and no Lock or Release outcome changes the operation of an existing
\* outgoing slot.
C36_WitnessFrame ==
    /\ \A u \in Users, body \in WitnessBodies, check \in BOOLEAN :
          \E out \in {WitnessCall(u, body, check)} :
              /\ out.st.balances = balances
              /\ out.st.next_out = NEXT_OUT_SEQUENCE
              /\ out.st.next_in = NEXT_IN_SEQUENCE
              /\ out.st.in_sigs = IN_WITNESS_SIGNATURES
              /\ DOMAIN out.st.out_sigs \ {body.id} = DOMAIN OUT_WITNESS_SIGNATURES \ {body.id}
              /\ \A n \in DOMAIN OUT_WITNESS_SIGNATURES :
                    n # body.id => out.st.out_sigs[n] = OUT_WITNESS_SIGNATURES[n]
              /\ StoreHas(out.st.out_sigs, body.id) => StoreHas(OUT_WITNESS_SIGNATURES, body.id)
              /\ OpsKept(OUT_WITNESS_SIGNATURES, out.st.out_sigs)
    /\ \A u \in LockCallers, body \in LargeLockBodies, check \in BOOLEAN :
          \E out \in {LockCall(u, body, check)} :
              /\ OpsKept(OUT_WITNESS_SIGNATURES, out.st.out_sigs)
              /\ Commits(out, check) =>
                    /\ out.st.out_sigs[out.id].op = OperationLock(body)
                    /\ DOMAIN out.st.out_sigs = DOMAIN OUT_WITNESS_SIGNATURES \cup {out.id}
    /\ \A u \in Users, body \in ReleaseBodies, check \in BOOLEAN :
          ReleaseCall(u, body, check).st.out_sigs = OUT_WITNESS_SIGNATURES

\* Two outgoing slots are open, the first with one index; a Witness call for id 0
\* by another witness is accepted and leaves slot 1 alone.
C36_Witness ==
    /\ DOMAIN OUT_WITNESS_SIGNATURES = {0, 1}
    /\ Len(OUT_WITNESS_SIGNATURES[0].witnesses) = 1
    /\ OUT_WITNESS_SIGNATURES[0].op # OUT_WITNESS_SIGNATURES[1].op
    /\ \E u \in Users, body \in WitnessBodies :
          \E out \in {WitnessCall(u, body, FALSE)} :
              /\ body.id = 0
              /\ out.result = Ok
              /\ out.st.out_sigs # OUT_WITNESS_SIGNATURES
              /\ out.st.out_sigs[1] = OUT_WITNESS_SIGNATURES[1]

(* ------------------------------------------------------------------ *)
(* C37                                                                  *)
(* ------------------------------------------------------------------ *)
\* Witness u is recorded on the incoming slot of id n.
OnIncomingSlot(u, n) ==
    /\ StoreHas(IN_WITNESS_SIGNATURES, n)
    /\ Contains(IN_WITNESS_SIGNATURES[n].witnesses, FindWitness(params, u))

\* Witness u is recorded on the outgoing slot of id n.
OnOutgoingSlot(u, n) ==
    /\ StoreHas(OUT_WITNESS_SIGNATURES, n)
    /\ Contains(OUT_WITNESS_SIGNATURES[n].witnesses, FindWitness(params, u))

\* The first error condition of an executed Release, in the order of the handler.
ReleasePrecedence(u, body) ==
    IF ~Supported(body.amount.denomination) THEN UnsupportedDenomination
    ELSE IF ~IsWitness(u) THEN NotAuthorized
    ELSE IF body.id # Expected THEN InvalidSequenceNumber
    ELSE IF OnIncomingSlot(u, body.id) THEN AlreadySubmittedSignature
    ELSE "none"

\* The first error condition of an executed Witness, in the order of the handler.
WitnessPrecedence(u, body) ==
    IF ~IsWitness(u) THEN NotAuthorized
    ELSE IF ~StoreHas(OUT_WITNESS_SIGNATURES, body.id) THEN InvalidSequenceNumber
    ELSE IF OnOutgoingSlot(u, body.id) THEN AlreadySubmittedSignature
    ELSE "none"

PrecedenceErrors ==
    {UnsupportedDenomination, NotAuthorized, InvalidSequenceNumber,
     AlreadySubmittedSignature}

\* C37: an executed Release reports UnsupportedDenomination whenever the
\* denomination is unsupported, else NotAuthorized whenever the caller is no
\* witness, else InvalidSequenceNumber whenever the id is not the expected one,
\* else AlreadySubmittedSignature whenever the caller's index is on the slot, and
\* none of these four otherwise; an executed Witness reports NotAuthorized, else
\* InvalidSequenceNumber when the id has no slot, else AlreadySubmittedSignature,
\* and succeeds otherwise. A witness recorded on the slot of the expected id that
\* calls Release with another id gets InvalidSequenceNumber.
C37_ErrorPrecedence ==
    /\ \A u \in Users, body \in ReleaseBodies :
          \E out \in {ReleaseCall(u, body, FALSE)} :
              /\ ReleasePrecedence(u, body) # "none" =>
                    out.result = ReleasePrecedence(u, body)
              /\ ReleasePrecedence(u, body) = "none" => out.result \notin PrecedenceErrors
              /\ (/\ Supported(body.amount.denomination)
                  /\ IsWitness(u)
                  /\ OnIncomingSlot(u, Expected)
                  /\ body.id # Expected) => out.result = InvalidSequenceNumber
    /\ \A u \in Users, body \in WitnessBodies :
          \E out \in {WitnessCall(u, body, FALSE)} :
              /\ WitnessPrecedence(u, body) # "none" =>
                    out.result = WitnessPrecedence(u, body)
              /\ WitnessPrecedence(u, body) = "none" => out.result = Ok

\* A witness is recorded on the open slot of the expected id and calls Release for
\* another id; a user that is no witness calls Release with an unsupported
\* denomination and another id; a witness recorded on an outgoing slot calls
\* Witness again.
C37_Witness ==
    /\ \E u \in Users, body \in ReleaseBodies :
          /\ Supported(body.amount.denomination)
          /\ OnIncomingSlot(u, Expected)
          /\ body.id # Expected
          /\ ReleaseCall(u, body, FALSE).result = InvalidSequenceNumber
    /\ \E u \in Users, body \in ReleaseBodies :
          /\ ~IsWitness(u)
          /\ ~Supported(body.amount.denomination)
          /\ body.id # Expected
          /\ ReleaseCall(u, body, FALSE).result = UnsupportedDenomination
    /\ \E u \in Users, body \in WitnessBodies :
          /\ OnOutgoingSlot(u, body.id)
          /\ WitnessCall(u, body, FALSE).result = AlreadySubmittedSignature

====
